---- MODULE Spec2Model ----
(***************************************************************************)
(* The build-step engine of build-samba.py and build-samba2.py: the step   *)
(* registry (Builder._steps), the memoised, pull-style resolution of       *)
(* prerequisites (Builder.wants), the step handlers with the commands they *)
(* issue, and the container image / build directory they act on.           *)
(*                                                                         *)
(* One run of a script is one behaviour.  The Python call stack is the     *)
(* variable stack: a frame is one handler invocation made by Builder.wants *)
(* and its pc is the position in the handler's body.  An exception passes  *)
(* through every frame (Builder.wants catches nothing) and ends the run;   *)
(* the frames it passed through stay in stack as its traceback.            *)
(*                                                                         *)
(* The options --no-prereqs and --dry-run are read all along a run and are *)
(* part of the initial state.  An option or a directory that one statement *)
(* alone reads (--image-sources, --debug, the distro, the arguments after  *)
(* `--`, the files a search finds) is drawn by the action of that          *)
(* statement.                                                              *)
(***************************************************************************)
EXTENDS Integers, Sequences, FiniteSets, TLC

(***************************************************************************)
(* Bounds of the model.                                                    *)
(***************************************************************************)
\* number of --execute options on the command line (top-level requests)
MaxRequests == 2
\* number of distinct source packages matching the glob that a directory may
\* hold before the run (they are drawn when the directory is searched)
MaxSrpms == 2
\* stand-in for the interpreter's recursion limit (sys.getrecursionlimit())
RecursionLimit == 8
\* number of prerequisite requests in the body of an arbitrary handler
MaxPrereqs == 1
\* number of calls made of the functions of a context
MaxCalls == 2
\* number of port requests given to _container_cmd
MaxPorts == 2
\* number of tasks appended to a backend
MaxTasks == 2
\* number of components of a path in an image
MaxDepth == 2
\* length of a file given to sha256_digest, and largest block size
MaxLen == 4
MaxBsize == 3

(***************************************************************************)
(* The two scripts.                                                        *)
(***************************************************************************)
V1 == "build-samba.py"
V2 == "build-samba2.py"

(***************************************************************************)
(* class Steps                                                             *)
(***************************************************************************)
DNF_CACHE == "dnfcache"
BUILD_CONTAINER == "build-container"
CONTAINER == "container"
CONFIGURE == "configure"
BUILD == "build"
CUSTOM == "custom"
TARBALL == "tarball"
SOURCE_RPM == "source-rpm"
RPM == "rpm"
PACKAGES == "packages"
INTERACTIVE == "interactive"
SYNC == "sync"
MAKE == "make"
STEP_OTHER == "other"

(***************************************************************************)
(* class ImageSource                                                       *)
(***************************************************************************)
CACHE == "cache"
PULL == "pull"
ImageSource == {CACHE, PULL, BUILD}

(***************************************************************************)
(* Image annotations of build-samba.py.                                    *)
(***************************************************************************)
ANN_BC == "us.asynchrono.samba-build-container"
ANN_SPEC_DIGEST == "us.asynchrono.samba-spec-digest"

\* contents a spec file may have
SpecContents == {"specA", "specB"}

\* hashlib.sha256(content).hexdigest(): injective on the modelled contents
hexdigest(content) == "hex-" \o content

\* sha256_digest of build-samba.py: the bare hex digest of the file's bytes
sha256_digest(content) == hexdigest(content)

\* _sha256_digest of build-samba2.py: the hex digest with the scheme in front
_sha256_digest(content) == "sha256:" \o hexdigest(content)

\* f"sha256:{spec_digest}", as written into and compared with the annotation
prefixed_digest(spec_digest) == "sha256:" \o spec_digest

\* _short: the leading 12 characters (the modelled sums are shorter than 12)
_short(value) == value

(***************************************************************************)
(* Instructions of a handler body.                                         *)
(***************************************************************************)
\* ctx.build.wants(step, ctx)
wants(step) == [k |-> "wants", a |-> step, check |-> FALSE, ctx |-> FALSE, uc |-> FALSE]
\* `with ctx.user_command(): _run(cmd, check=check, ctx=ctx)`
user_command(cmd, check) == [k |-> "run", a |-> cmd, check |-> check, ctx |-> TRUE, uc |-> TRUE]
\* any other statement, executed by the action named after it
stmt(kind, arg) == [k |-> kind, a |-> arg, check |-> FALSE, ctx |-> FALSE, uc |-> FALSE]
\* `builder.immediate(RunTask(cmd), check=check)`
immediate(cmd, check) == [k |-> "immediate", a |-> cmd, check |-> check, ctx |-> FALSE, uc |-> FALSE]

(***************************************************************************)
(* The handlers of build-samba2.py.                                        *)
(***************************************************************************)
\* a handler of DNF_CACHE that requests CONTAINER first
dnf_cache_dir_wants == << wants(CONTAINER), stmt("local", "dnf-cache-dirs") >>

dnf_cache_dir == << stmt("local", "dnf-cache-dirs") >>

build_container ==
    << wants(DNF_CACHE),
       stmt("local", "spec-checksums"),
       user_command("container-build", TRUE) >>

\* inspect returns from the handler on success, as does pull
get_container ==
    << stmt("inspect", ""),
       stmt("pull", ""),
       stmt("need_build", ""),
       wants(BUILD_CONTAINER) >>

bc_configure == << wants(CONTAINER), user_command("configure", TRUE) >>

bc_build == << wants(CONFIGURE), user_command("make", TRUE) >>

bc_make_tarball ==
    << wants(CONTAINER),
       stmt("rpm_info", ""),
       user_command("git-archive", TRUE) >>

bc_make_source_rpm == << wants(TARBALL), user_command("rpmbuild-bs", TRUE) >>

\* find jumps over the SOURCE_RPM request and the glob when it has one match
bc_build_rpm ==
    << wants(CONTAINER),
       stmt("rpm_info", ""),
       stmt("find", ""),
       wants(SOURCE_RPM),
       stmt("glob", ""),
       user_command("rpmbuild-rebuild", TRUE) >>

bc_make_packages == << stmt("require", "rpm-distro"), wants(RPM) >>

bc_custom ==
    << wants(CONTAINER),
       stmt("require", "remaining-args"),
       user_command("custom", TRUE) >>

bc_interactive == << wants(CONTAINER), user_command("interactive", FALSE) >>

bc_sync == << stmt("sync", "") >>

(***************************************************************************)
(* The handlers of build-samba.py.  A `with BuildahBackend(...)` block is  *)
(* opened by "backend" and left by "apply" (BuildahBackend.__exit__).      *)
(***************************************************************************)
buildah_build_container ==
    << stmt("local", "sha256_digest"),
       stmt("backend", "image"),
       immediate("cat-os-release", FALSE),
       stmt("annotate", ""),
       stmt("append", "mkdir"),
       stmt("append", "copy-sources"),
       stmt("append", "copy-spec"),
       stmt("append", "dnf-install"),
       stmt("append", "dnf-builddep"),
       stmt("apply", "") >>

buildah_get_container ==
    << stmt("inspect", ""),
       stmt("pull", ""),
       stmt("need_build", ""),
       wants(BUILD_CONTAINER) >>

cmd_build_srpm ==
    << wants(CONTAINER),
       stmt("local", "sha256_digest"),
       stmt("backend", "working"),
       immediate("rpm-q", TRUE),
       stmt("check_digest", ""),
       stmt("append", "rsync"),
       stmt("append", "cp"),
       stmt("append", "git-archive"),
       stmt("append", "rpmbuild-bs"),
       stmt("apply", "") >>

cmd_build_rpm ==
    << wants(SOURCE_RPM),
       stmt("backend", "working"),
       immediate("find", TRUE),
       stmt("append", "rpmbuild-rebuild"),
       stmt("apply", "") >>

cmd_configure ==
    << wants(CONTAINER),
       stmt("backend", "working"),
       stmt("append", "configure"),
       stmt("apply", "") >>

cmd_make ==
    << wants(CONTAINER),
       stmt("backend", "working"),
       stmt("append", "make"),
       stmt("apply", "") >>

cmd_other ==
    << stmt("require", "remaining-args"),
       wants(CONTAINER),
       stmt("backend", "working"),
       stmt("append", "other"),
       stmt("apply", "") >>

\* Builder._steps as the @Builder.set decorators of build-samba2.py leave it
Steps2 ==
    (DNF_CACHE :> dnf_cache_dir) @@ (BUILD_CONTAINER :> build_container)
    @@ (CONTAINER :> get_container) @@ (CONFIGURE :> bc_configure)
    @@ (BUILD :> bc_build) @@ (TARBALL :> bc_make_tarball)
    @@ (SOURCE_RPM :> bc_make_source_rpm) @@ (RPM :> bc_build_rpm)
    @@ (PACKAGES :> bc_make_packages) @@ (CUSTOM :> bc_custom)
    @@ (INTERACTIVE :> bc_interactive) @@ (SYNC :> bc_sync)

\* Builder._steps as the @Builder.set decorators of build-samba.py leave it
Steps1 ==
    (BUILD_CONTAINER :> buildah_build_container)
    @@ (CONTAINER :> buildah_get_container)
    @@ (SOURCE_RPM :> cmd_build_srpm) @@ (RPM :> cmd_build_rpm)
    @@ (CONFIGURE :> cmd_configure) @@ (MAKE :> cmd_make)
    @@ (STEP_OTHER :> cmd_other)


\* the members of the enumeration Steps of a script
StepsEnum(s) ==
    IF s = V1
    THEN {DNF_CACHE, BUILD_CONTAINER, CONTAINER, CONFIGURE, MAKE, SOURCE_RPM, RPM,
          STEP_OTHER}
    ELSE {DNF_CACHE, BUILD_CONTAINER, CONTAINER, CONFIGURE, BUILD, CUSTOM, TARBALL,
          SOURCE_RPM, RPM, PACKAGES, INTERACTIVE, SYNC}

\* every step identifier of either script
AllSteps ==
    {DNF_CACHE, BUILD_CONTAINER, CONTAINER, CONFIGURE, BUILD, CUSTOM, TARBALL,
     SOURCE_RPM, RPM, PACKAGES, INTERACTIVE, SYNC, MAKE, STEP_OTHER}

\* every external command either script issues through _run
Commands ==
    {"inspect", "pull", "container-build", "configure", "make", "rpm-q",
     "sha256sum", "git-archive", "rpmbuild-bs", "find", "rpmbuild-rebuild",
     "custom", "interactive", "other",
     "from", "rm", "cat-os-release", "mkdir", "copy-sources", "copy-spec",
     "dnf-install", "dnf-builddep", "rsync", "cp", "config", "commit",
     "git-rev-parse", "copy"}

VARIABLES
    script,         \* which of the two scripts runs
    cli,            \* the parsed command line (parse_cli)
    _steps,         \* Builder._steps: step -> handler body
    _did_steps,     \* Builder._did_steps
    stack,          \* the handler invocations in progress, innermost last
    status,         \* "running", "done" (main returned) or "failed" (exception)
    error,          \* the exception that ended the run, "" if none
    requests,       \* top-level requests main has made so far
    cache,          \* ctx.cache of build-samba2.py
    backend,        \* the BuildahBackend of the `with` block in progress
    image,          \* the working image in local container storage
    srpms,          \* source packages this run wrote to the build directory
    spec_file,      \* content of the spec file on the host
    srpm_path,      \* the source packages named in rpmbuild --rebuild commands
    dirs,           \* directories the run has created on the host
    build_dirs,     \* the directories the packaging commands started have named
    _engine,        \* Context._engine of build-samba2.py
    which,          \* the container engines on the executable search path
    call,           \* the call of a function in progress or returned last
    fh,             \* the file sha256_digest reads, with the read position
    hh,             \* the bytes sha256_digest has fed to the hash
    log,            \* the log records _run has emitted
    ran,            \* command -> number of times a process was started for it
    skipped,        \* command -> number of times dry-run logged it only
    invoked,        \* step -> number of times its handler was entered
    prepare_calls,  \* number of calls of prepare_env_once
    top_requested,  \* steps main has requested with top=True
    acquire,        \* the image sources get_container attempted, with success
    rebuilt         \* steps whose handler was entered beneath get_container

vars ==
    <<script, cli, _steps, _did_steps, stack, status, error, requests, cache,
      backend, image, srpms, spec_file, srpm_path, dirs, build_dirs, _engine,
      which, call,
      fh, hh, log, ran, skipped, invoked,
      prepare_calls, top_requested, acquire, rebuilt>>

\* what no step of a run changes: the configuration, and the state of the
\* functions that are followed on their own
configVars == <<script, cli, _steps, _engine, which, call, fh, hh, log>>
envVars == <<image, srpms, spec_file, srpm_path, dirs, build_dirs>>

(***************************************************************************)
(* Values                                                                  *)
(***************************************************************************)
\* the annotations build_container of build-samba.py sets for a spec digest
Annotations(spec_digest) ==
    {<<ANN_BC, "true">>, <<ANN_SPEC_DIGEST, prefixed_digest(spec_digest)>>}

\* `key in annotations`
HasKey(annotations, key) == \E kv \in annotations : kv[1] = key

\* `annotations[key]`
Value(annotations, key) == (CHOOSE kv \in annotations : kv[1] = key)[2]

NoImage == [present |-> FALSE, annotations |-> {}]

\* the annotations an image found in storage or in a registry may carry
ImageAnnotations == {{}} \cup {Annotations(sha256_digest(c)) : c \in SpecContents}

Images == {NoImage} \cup {[present |-> TRUE, annotations |-> a] : a \in ImageAnnotations}

NoBackend == [open |-> FALSE, img |-> FALSE, tasks |-> <<>>, annotations |-> {}]

\* get_container with the option --image-sources ignored
allowed_sources_any(image_sources) == ImageSource

\* `allowed = ctx.cli.image_sources or ImageSource`
allowed_sources(image_sources) ==
    IF image_sources = {} THEN ImageSource ELSE image_sources

Frame(step, top) ==
    [step |-> step, top |-> top, pc |-> 1, req |-> {}, paths |-> <<>>,
     spec_digest |-> "", image_sources |-> {}]

Top == stack[Len(stack)]
Code == _steps[Top.step]
Instr == Code[Top.pc]

\* a handler going on, or trying again, after an exception
At_any_status(kind) ==
    /\ stack # <<>>
    /\ Top.pc <= Len(Code)
    /\ Instr.k = kind

\* the innermost handler is about to execute a statement of the given kind
At(kind) ==
    /\ status = "running"
    /\ stack # <<>>
    /\ Top.pc <= Len(Code)
    /\ Instr.k = kind

\* a sequence enumerating a finite set of integers in increasing order
RECURSIVE SetToSeq(_)
SetToSeq(S) ==
    IF S = {} THEN <<>>
    ELSE LET m == CHOOSE x \in S : \A y \in S : x <= y
         IN  <<m>> \o SetToSeq(S \ {m})

\* the counters after a process was started for each command of cmds
Started(cmds) ==
    [c \in Commands |-> ran[c] + Cardinality({i \in 1..Len(cmds) : cmds[i] = c})]

\* exit codes the environment may give a command: one that needs the working
\* image cannot succeed without it
ExitCodes(needs_image) == IF needs_image /\ ~image.present THEN {1} ELSE {0, 1}

(***************************************************************************)
(* Control flow                                                            *)
(***************************************************************************)
Goto(n) == stack' = [stack EXCEPT ![Len(stack)].pc = n]
Advance == Goto(Top.pc + 1)
Return == Goto(Len(Code) + 1)
Continue == UNCHANGED <<status, error>>

\* an exception propagates through every frame to main
Raise(kind) ==
    /\ stack' = stack
    /\ status' = "failed"
    /\ error' = kind

(***************************************************************************)
(* Builder.wants                                                           *)
(***************************************************************************)
\* Overlay: the object Context.overlay returns; NoOverlay stands for None
Overlay(temporary, upper, work) ==
    [temporary |-> temporary, upper |-> upper, work |-> work]

NoOverlay == [temporary |-> FALSE, upper |-> <<>>, work |-> <<>>]

\* `pathlib.Path(self.cli.overlay_dir).resolve()`: the components of the path
resolve(overlay_dir) == <<overlay_dir>>

\* Context.overlay of build-samba2.py: None without --overlay-dir, a temporary
\* overlay for "-", else upper and work directories beneath the given one
overlay ==
    IF cli.overlay_dir = "" THEN NoOverlay
    ELSE IF cli.overlay_dir = "-" THEN Overlay(TRUE, <<>>, <<>>)
    ELSE LET obase == resolve(cli.overlay_dir)
         IN  Overlay(FALSE, Append(obase, "content"), Append(obase, "work"))

\* `path.mkdir(parents=True, exist_ok=True)`: the directory and its parents
mkdir(made, path) == made \cup {SubSeq(path, 1, n) : n \in 1..Len(path)}

\* prepare_env_once: the directories that exist after it
prepare_env_once ==
    IF overlay # NoOverlay /\ ~overlay.temporary
    THEN mkdir(mkdir(dirs, overlay.upper), overlay.work)
    ELSE dirs

\* wants without the test of no_prereqs
prereq_disabled_ignored(top) == FALSE

\* `if ctx.cli.no_prereqs and not top: return`
prereq_disabled(top) == cli.no_prereqs /\ ~top

\* wants without the test of _did_steps
already_done_ignored(step) == FALSE

\* `if step in self._did_steps: return`
already_done(step) == step \in _did_steps

\* wants without the call of prepare_env_once
first_step_never == FALSE

\* `if not self._did_steps: prepare_env_once(ctx)` (build-samba2.py only)
first_step == script = V2 /\ _did_steps = {}

\* wants without the record of the step
add_did_step_lost(step) == _did_steps

\* `self._did_steps.add(step)`
add_did_step(step) == _did_steps \cup {step}

\* wants(step, top=top) called with `base` the caller's frames
BuilderWants(step, top, base) ==
    IF prereq_disabled(top) \/ already_done(step)
    THEN /\ stack' = base
         /\ UNCHANGED <<status, error, prepare_calls, dirs, invoked, rebuilt>>
    ELSE /\ prepare_calls' = IF first_step THEN prepare_calls + 1 ELSE prepare_calls
         /\ dirs' = IF first_step THEN prepare_env_once ELSE dirs
         /\ IF step \notin DOMAIN _steps
            THEN Raise("KeyError") /\ UNCHANGED <<invoked, rebuilt>>
            ELSE IF Len(base) >= RecursionLimit
            THEN Raise("RecursionError") /\ UNCHANGED <<invoked, rebuilt>>
            ELSE /\ stack' = Append(base, Frame(step, top))
                 /\ invoked' = [invoked EXCEPT ![step] = @ + 1]
                 /\ rebuilt' = IF \E i \in 1..Len(base) : base[i].step = CONTAINER
                               THEN rebuilt \cup {step} ELSE rebuilt
                 /\ Continue

\* main going on with the next step after an exception
main_loop_resumes == status # "done" /\ (stack = <<>> \/ status = "failed")

\* main is in its loop over cli.steps, between two requests
main_loop == status = "running" /\ stack = <<>>

\* the exit status of the process: 0 when main returns or parse_cli calls
\* sys.exit(0); 1 for sys.exit(1) after CommandFailed and for an exception
\* that leaves main uncaught
exit_status == IF status = "done" THEN 0 ELSE IF status = "failed" THEN 1 ELSE -1

\* parse_cli: `if cli.help_build_steps: <print the steps>; sys.exit(0)`
HelpBuildSteps ==
    /\ script = V2
    /\ main_loop
    /\ requests = 0
    /\ status' = "done"
    /\ UNCHANGED <<configVars, envVars, _did_steps, stack, error, requests, cache,
                   backend, ran, skipped, invoked, prepare_calls, top_requested,
                   acquire, rebuilt>>

\* main: `for step in cli.steps: ctx.build.wants(step, ctx, top=True)`
MainWants ==
    /\ main_loop
    /\ cli.execute
    /\ requests < MaxRequests
    /\ \E step \in DOMAIN _steps :
         /\ BuilderWants(step, TRUE, <<>>)
         /\ top_requested' = top_requested \cup {step}
    /\ requests' = requests + 1
    /\ UNCHANGED <<configVars, image, srpms, spec_file, srpm_path, build_dirs,
                   _did_steps, cache,
                   backend, ran, skipped, acquire>>

\* main: `for step in cli.steps or [Steps.BUILD]` when no --execute option
\* was given: the one request of the default step, if Steps has that member
MainDefault ==
    /\ main_loop
    /\ ~cli.execute
    /\ requests = 0
    /\ IF BUILD \notin StepsEnum(script)
       THEN /\ Raise("AttributeError")
            /\ UNCHANGED <<prepare_calls, dirs, invoked, rebuilt, top_requested,
                           requests>>
       ELSE /\ BuilderWants(BUILD, TRUE, <<>>)
            /\ top_requested' = top_requested \cup {BUILD}
            /\ requests' = requests + 1
    /\ UNCHANGED <<configVars, image, srpms, spec_file, srpm_path, build_dirs,
                   _did_steps, cache, backend, ran, skipped, acquire>>

\* main: the loop over cli.steps is exhausted
MainExit ==
    /\ main_loop
    /\ requests >= 1
    /\ status' = "done"
    /\ UNCHANGED <<configVars, envVars, _did_steps, stack, error, requests, cache,
                   backend, ran, skipped, invoked, prepare_calls, top_requested,
                   acquire, rebuilt>>

\* a handler: `ctx.build.wants(step, ctx)`
HandlerWants ==
    /\ At("wants")
    /\ BuilderWants(Instr.a, FALSE,
                    [stack EXCEPT ![Len(stack)].pc = @ + 1,
                                  ![Len(stack)].req = @ \cup {Instr.a}])
    /\ UNCHANGED <<configVars, image, srpms, spec_file, srpm_path, build_dirs,
                   _did_steps,
                   requests, cache, backend, ran, skipped, top_requested, acquire>>

\* a handler returns to Builder.wants, which records the step as done
HandlerReturn ==
    /\ status = "running"
    /\ stack # <<>>
    /\ Top.pc > Len(Code)
    /\ _did_steps' = add_did_step(Top.step)
    /\ stack' = SubSeq(stack, 1, Len(stack) - 1)
    /\ UNCHANGED <<configVars, envVars, status, error, requests, cache, backend,
                   ran, skipped, invoked, prepare_calls, top_requested, acquire,
                   rebuilt>>


(***************************************************************************)
(* _run and Context.user_command of build-samba2.py                        *)
(***************************************************************************)
\* _run without the dry-run test
did_not_execute_never(ctx_given) == FALSE

\* _run: `if ctx and ctx.dry_run: ... raise DidNotExecute(cmd)`
did_not_execute(ctx_given) == ctx_given /\ cli.dry_run

\* user_command: what a subprocess error leaves the block as, given --debug
user_command_error(debug) == IF debug THEN "CalledProcessError" ELSE "CommandFailed"

\* every command but the image build runs inside the working image
NeedsImage(cmd) == cmd # "container-build"

\* the image `<engine> build -t image_name` leaves in storage
BuiltImage == [present |-> TRUE, annotations |-> {}]
\* the directory the source package is written to and searched in
build_dir ==
    IF cache.spec_sha256_sum # "" THEN "homedir/" \o _short(cache.spec_sha256_sum)
    ELSE "homedir"

\* build_dirs once a packaging command names build_dir: the git archive of
\* bc_make_tarball, the rpmbuild -bs of bc_make_source_rpm, the find of
\* bc_build_rpm
names(command) ==
    IF command = "git-archive"
    THEN [build_dirs EXCEPT !.tarball = @ \cup {build_dir}]
    ELSE IF command = "rpmbuild-bs"
    THEN [build_dirs EXCEPT !.srpm = @ \cup {build_dir}]
    ELSE IF command = "find"
    THEN [build_dirs EXCEPT !.find = @ \cup {build_dir}]
    ELSE build_dirs

\* the source packages this run wrote that are in directory dir
written_in(dir) == IF dir \in build_dirs.srpm THEN srpms ELSE {}

\* a handler: `with ctx.user_command(): _run(cmd, check=..., ctx=ctx)`
UserCommand ==
    /\ At("run")
    /\ srpm_path' = IF Instr.a = "rpmbuild-rebuild"
                    THEN srpm_path \cup {Top.paths[1]} ELSE srpm_path
    /\ IF did_not_execute(Instr.ctx)
       THEN \* DidNotExecute is swallowed by user_command
            /\ skipped' = [skipped EXCEPT ![Instr.a] = @ + 1]
            /\ Advance /\ Continue
            /\ UNCHANGED <<ran, image, srpms, build_dirs>>
       ELSE \E rc \in ExitCodes(NeedsImage(Instr.a)) :
            /\ ran' = Started(<<Instr.a>>)
            /\ build_dirs' = names(Instr.a)
            /\ UNCHANGED skipped
            /\ IF rc # 0 /\ Instr.check
               THEN /\ \E debug \in BOOLEAN : Raise(user_command_error(debug))
                    /\ UNCHANGED <<image, srpms>>
               ELSE /\ Advance /\ Continue
                    /\ image' = IF rc = 0 /\ Instr.a = "container-build"
                                THEN BuiltImage ELSE image
                    /\ srpms' = IF rc = 0 /\ Instr.a = "rpmbuild-bs"
                                THEN srpms \cup {1} ELSE srpms
    /\ UNCHANGED <<configVars, dirs, spec_file, _did_steps, requests, cache, backend,
                   invoked, prepare_calls, top_requested, acquire, rebuilt>>

\* a statement of a handler that acts on the host only (directories of the
\* dnf cache, the digest of the spec file)
Local ==
    /\ At("local")
    /\ stack' = [stack EXCEPT
                   ![Len(stack)].pc = @ + 1,
                   ![Len(stack)].spec_digest =
                       IF Instr.a = "sha256_digest" THEN sha256_digest(spec_file) ELSE @]
    /\ UNCHANGED <<configVars, envVars, _did_steps, status, error, requests, cache,
                   backend, ran, skipped, invoked, prepare_calls, top_requested,
                   acquire, rebuilt>>

(***************************************************************************)
(* get_container (both scripts)                                            *)
(***************************************************************************)
\* the probes: build-samba.py runs them through BuildahBackend.direct, whose
\* check defaults to True; build-samba2.py passes check=False to _run
probe_check == script = V1

\* get_container without the return after a successful probe
probe_next_falls_through(ok, pc, end) == pc + 1

\* where get_container goes on after a probe: `if res.returncode == 0: return`
probe_next(ok, pc, end) == IF ok THEN end ELSE pc + 1

\* the set `allowed` of the get_container in progress
allowed == allowed_sources(Top.image_sources)

\* `allowed = ctx.cli.image_sources or ImageSource`
\* `if ImageSource.CACHE in allowed: res = <inspect>; if res.returncode == 0: return`
Inspect ==
    /\ At("inspect")
    /\ \E image_sources \in SUBSET ImageSource :
         LET frames == [stack EXCEPT ![Len(stack)].image_sources = image_sources]
         IN  IF CACHE \notin allowed_sources(image_sources)
             THEN /\ stack' = [frames EXCEPT ![Len(stack)].pc = @ + 1]
                  /\ Continue /\ UNCHANGED <<ran, acquire>>
             ELSE /\ ran' = Started(<<"inspect">>)
                  /\ acquire' = Append(acquire, <<CACHE, image.present>>)
                  /\ IF ~image.present /\ probe_check
                     THEN /\ stack' = frames
                          /\ status' = "failed"
                          /\ error' = "CalledProcessError"
                     ELSE /\ stack' = [frames EXCEPT ![Len(stack)].pc =
                                          probe_next(image.present, @, Len(Code) + 1)]
                          /\ Continue
    /\ UNCHANGED <<configVars, envVars, _did_steps, requests, cache, backend,
                   skipped, invoked, prepare_calls, top_requested, rebuilt>>

\* `if ImageSource.PULL in allowed: res = <pull>; if res.returncode == 0: return`
Pull ==
    /\ At("pull")
    /\ IF PULL \notin allowed
       THEN Advance /\ Continue /\ UNCHANGED <<ran, acquire, image>>
       ELSE /\ ran' = Started(<<"pull">>)
            /\ \E pulled \in Images :
                 /\ acquire' = Append(acquire, <<PULL, pulled.present>>)
                 /\ image' = IF pulled.present THEN pulled ELSE image
                 /\ IF ~pulled.present /\ probe_check
                    THEN Raise("CalledProcessError")
                    ELSE /\ Goto(probe_next(pulled.present, Top.pc, Len(Code) + 1))
                         /\ Continue
    /\ UNCHANGED <<configVars, dirs, build_dirs, srpms, spec_file, srpm_path, _did_steps,
                   requests,
                   cache, backend, skipped, invoked, prepare_calls, top_requested,
                   rebuilt>>

\* `if ImageSource.BUILD in allowed: <wants BUILD_CONTAINER>; return`
\* `raise ValueError("no available image sources")`
NeedBuild ==
    /\ At("need_build")
    /\ IF BUILD \in allowed
       THEN Advance /\ Continue /\ acquire' = Append(acquire, <<BUILD, TRUE>>)
       ELSE Raise("ValueError") /\ UNCHANGED acquire
    /\ UNCHANGED <<configVars, envVars, _did_steps, requests, cache, backend, ran,
                   skipped, invoked, prepare_calls, top_requested, rebuilt>>

(***************************************************************************)
(* The packaging steps of build-samba2.py                                  *)
(***************************************************************************)\* a handler that asks again whatever the cache holds
have_rpm_version_never == FALSE

\* bc_make_tarball and bc_build_rpm: `if not ctx.cache.rpm_version:` is false
have_rpm_version == cache.rpm_version # "None"

\* `if not ctx.cache.rpm_version: _update_rpm_info(ctx)`: two commands run
\* with check=True and without ctx, outside any user_command block
RpmInfo ==
    /\ At("rpm_info")
    /\ IF have_rpm_version
       THEN Advance /\ Continue /\ UNCHANGED <<ran, cache>>
       ELSE \E failing \in IF image.present THEN 0..2 ELSE {1} :
            CASE failing = 1 ->
                   /\ ran' = Started(<<"rpm-q">>)
                   /\ UNCHANGED cache
                   /\ Raise("CalledProcessError")
              [] failing = 2 ->
                   /\ ran' = Started(<<"rpm-q", "sha256sum">>)
                   /\ cache' = [cache EXCEPT !.rpm_version = "4.999"]
                   /\ Raise("CalledProcessError")
              [] failing = 0 ->
                   /\ ran' = Started(<<"rpm-q", "sha256sum">>)
                   /\ cache' = [rpm_version |-> "4.999", spec_sha256_sum |-> "specsum"]
                   /\ Advance /\ Continue
    /\ UNCHANGED <<configVars, envVars, _did_steps, requests, backend, skipped,
                   invoked, prepare_calls, top_requested, acquire, rebuilt>>

\* the paths a search of directory dir for the members of found gives
PathsIn(dir, found) ==
    [i \in 1..Cardinality(found) |-> [dir |-> dir, n |-> SetToSeq(found)[i]]]

\* bc_build_rpm requesting SOURCE_RPM whatever the search found
no_matches_always(paths) == TRUE

\* bc_build_rpm: `if not paths:`
no_matches(paths) == paths = <<>>

\* bc_build_rpm: `find build_dir -name srpm_glob` with check=False, then the
\* test of len(paths)
Find ==
    /\ At("find")
    /\ ran' = Started(<<"find">>)
    /\ build_dirs' = names("find")
    /\ \E rc \in ExitCodes(TRUE), old \in SUBSET (1..MaxSrpms) :
         LET paths == IF rc = 0 THEN PathsIn(build_dir, written_in(build_dir) \cup old)
                      ELSE <<>>
         IN  IF Len(paths) > 1 THEN Raise("RuntimeError")
             ELSE /\ stack' = [stack EXCEPT
                                 ![Len(stack)].pc =
                                     IF no_matches(paths) THEN @ + 1 ELSE @ + 3,
                                 ![Len(stack)].paths = paths]
                  /\ Continue
    /\ UNCHANGED <<configVars, image, srpms, spec_file, srpm_path, dirs, _did_steps,
                   requests, cache, backend,
                   skipped, invoked, prepare_calls, top_requested, acquire, rebuilt>>

\* bc_build_rpm: `paths = glob.glob(srpm_glob); assert paths`, a search of the
\* script's working directory on the host
Glob ==
    /\ At("glob")
    /\ \E found \in SUBSET (1..MaxSrpms) :
         IF found = {} THEN Raise("AssertionError")
         ELSE /\ stack' = [stack EXCEPT ![Len(stack)].pc = @ + 1,
                                        ![Len(stack)].paths = PathsIn("cwd", found)]
              /\ Continue
    /\ UNCHANGED <<configVars, envVars, _did_steps, requests, cache, backend, ran,
                   skipped, invoked, prepare_calls, top_requested, acquire, rebuilt>>

\* the tests that make a handler raise before it does anything:
\* bc_make_packages on the distro (`ctx.cli.distro in uses_rpmbuild()`),
\* bc_custom and cmd_other on the arguments after `--`.  No other statement
\* reads these options, so they are drawn here
Require ==
    /\ At("require")
    /\ \E given \in BOOLEAN :
         IF given THEN Advance /\ Continue
         ELSE Raise(IF Instr.a = "rpm-distro" THEN "NotImplementedError"
                    ELSE IF script = V1 THEN "ValueError" ELSE "RuntimeError")
    /\ UNCHANGED <<configVars, envVars, _did_steps, requests, cache, backend, ran,
                   skipped, invoked, prepare_calls, top_requested, acquire, rebuilt>>

\* bc_sync: download the spec template and rewrite samba-master.spec
Sync ==
    /\ At("sync")
    /\ \E content \in SpecContents \cup {"URLError"} :
         IF content = "URLError"
         THEN Raise("URLError") /\ UNCHANGED spec_file
         ELSE Advance /\ Continue /\ spec_file' = content
    /\ UNCHANGED <<configVars, dirs, build_dirs, image, srpms, srpm_path, _did_steps,
                   requests,
                   cache, backend, ran, skipped, invoked, prepare_calls,
                   top_requested, acquire, rebuilt>>


(***************************************************************************)
(* BuildahBackend of build-samba.py                                        *)
(***************************************************************************)
\* `with BuildahBackend(img=cli.working_image) as builder` (the image is to
\* be committed, the base is cli.base_image) or
\* `with BuildahBackend(base=ctx.cli.working_image, volumes=volumes)`
Backend ==
    /\ At("backend")
    /\ backend' = [open |-> TRUE, img |-> Instr.a = "image", tasks |-> <<>>,
                   annotations |-> {}]
    /\ Advance
    /\ UNCHANGED <<configVars, envVars, _did_steps, status, error, requests, cache,
                   ran, skipped, invoked, prepare_calls, top_requested, acquire,
                   rebuilt>>

\* a working container of the backend in progress is made from the working
\* image unless the backend is the one that builds it
FromNeedsImage == ~backend.img

\* BuildahBackend.immediate: _new, the task's command, and _rm in `finally`;
\* then what the handler does with the result
Immediate ==
    /\ At("immediate")
    /\ \E failing \in IF FromNeedsImage /\ ~image.present THEN {"from"}
                      ELSE {"from", "task", "rm", "none"},
          old \in IF Instr.a = "find" THEN SUBSET (1..MaxSrpms) ELSE {{}} :
         IF failing = "from"
         THEN /\ ran' = Started(<<"from">>)
              /\ Raise("CalledProcessError")
         ELSE /\ ran' = Started(<<"from", Instr.a, "rm">>)
              /\ IF failing = "rm" \/ (failing = "task" /\ Instr.check)
                 THEN Raise("CalledProcessError")
                 ELSE IF Instr.a = "find" /\ Cardinality(srpms \cup old) # 1
                 THEN Raise("ValueError")
                 ELSE /\ stack' = [stack EXCEPT
                            ![Len(stack)].pc = @ + 1,
                            ![Len(stack)].paths =
                                IF Instr.a = "find"
                                THEN PathsIn("srv/dest", srpms \cup old) ELSE @]
                      /\ Continue
    /\ UNCHANGED <<configVars, envVars, _did_steps, requests, cache, backend, skipped,
                   invoked, prepare_calls, top_requested, acquire, rebuilt>>

\* build_container: `builder.annotations[ANN_BC] = "true"` and
\* `builder.annotations[ANN_SPEC_DIGEST] = f"sha256:{spec_digest}"`
Annotate ==
    /\ At("annotate")
    /\ backend' = [backend EXCEPT !.annotations = Annotations(Top.spec_digest)]
    /\ Advance
    /\ UNCHANGED <<configVars, envVars, _did_steps, status, error, requests, cache,
                   ran, skipped, invoked, prepare_calls, top_requested, acquire,
                   rebuilt>>

\* `builder.append(task)`
AppendTask ==
    /\ At("append")
    /\ backend' = [backend EXCEPT !.tasks = Append(@, Instr.a)]
    /\ srpm_path' = IF Instr.a = "rpmbuild-rebuild"
                    THEN srpm_path \cup {Top.paths[1]} ELSE srpm_path
    /\ Advance
    /\ UNCHANGED <<configVars, dirs, build_dirs, image, srpms, spec_file, _did_steps,
                   status, error, requests, cache,
                   ran, skipped, invoked, prepare_calls, top_requested, acquire,
                   rebuilt>>

\* cmd_build_srpm reads img_annotations, a name bound nowhere in the script
img_annotations_bound == FALSE

\* cmd_build_srpm: `check_digest = (ctx.is_default_spec_file and ANN_BC in
\* img_annotations and ANN_SPEC_DIGEST in img_annotations)` and the comparison
CheckDigest ==
    /\ At("check_digest")
    /\ IF ~cli.default_spec THEN Advance /\ Continue
       ELSE IF ~img_annotations_bound THEN Raise("NameError")
       ELSE IF /\ HasKey(image.annotations, ANN_BC)
               /\ HasKey(image.annotations, ANN_SPEC_DIGEST)
               /\ Value(image.annotations, ANN_SPEC_DIGEST)
                    # prefixed_digest(Top.spec_digest)
       THEN Raise("ValueError")
       ELSE Advance /\ Continue
    /\ UNCHANGED <<configVars, envVars, _did_steps, requests, cache, backend, ran, skipped,
                   invoked, prepare_calls, top_requested, acquire, rebuilt>>

\* the image BuildahBackend._commit leaves: `buildah config` and `buildah
\* commit` run without check, so either may fail unnoticed
Committed(config_ok, commit_ok) ==
    IF ~commit_ok THEN image
    ELSE [present |-> TRUE,
          annotations |-> IF config_ok THEN backend.annotations ELSE {}]

\* BuildahBackend.__exit__ without an exception, that is _apply: _new, every
\* task in order, _commit if an image is named, and _rm in `finally`.
\* failing: 0 for `buildah from`, i for task i, n+1 for `buildah rm`, n+2 none
Apply ==
    /\ At("apply")
    /\ LET n == Len(backend.tasks)
           outcomes ==
             IF FromNeedsImage /\ ~image.present
             THEN {[failing |-> 0, config_ok |-> TRUE, commit_ok |-> TRUE]}
             ELSE [failing : 0..(n + 2),
                   config_ok : IF backend.img THEN BOOLEAN ELSE {TRUE},
                   commit_ok : IF backend.img THEN BOOLEAN ELSE {TRUE}]
       IN \E o \in outcomes :
            IF o.failing = 0
            THEN /\ ran' = Started(<<"from">>)
                 /\ Raise("CalledProcessError")
                 /\ UNCHANGED <<image, srpms>>
            ELSE IF o.failing <= n
            THEN /\ ran' = Started(<<"from">> \o SubSeq(backend.tasks, 1, o.failing)
                                   \o <<"rm">>)
                 /\ Raise("CalledProcessError")
                 /\ UNCHANGED <<image, srpms>>
            ELSE /\ ran' = Started(<<"from">> \o backend.tasks
                                   \o (IF backend.img THEN <<"config", "commit">>
                                       ELSE <<>>)
                                   \o <<"rm">>)
                 /\ image' = IF backend.img THEN Committed(o.config_ok, o.commit_ok)
                             ELSE image
                 /\ srpms' = IF \E i \in 1..n : backend.tasks[i] = "rpmbuild-bs"
                             THEN srpms \cup {1} ELSE srpms
                 /\ IF o.failing = n + 1 THEN Raise("CalledProcessError")
                    ELSE Advance /\ Continue
    /\ backend' = NoBackend
    /\ UNCHANGED <<configVars, dirs, build_dirs, spec_file, srpm_path, _did_steps,
                   requests, cache, skipped,
                   invoked, prepare_calls, top_requested, acquire, rebuilt>>

(***************************************************************************)
(* Context of build-samba2.py: container_engine, target_tag, image_name    *)
(* and _container_cmd.  Text is a sequence of pieces.                      *)
(***************************************************************************)
None == "None"

\* no function has been called
NoCall == [fn |-> "", n |-> 0]

\* `for ctr_eng in ["podman", "docker"]: if shutil.which(ctr_eng): break`,
\* `else: raise RuntimeError`
search_docker_first(found) ==
    IF "docker" \in found THEN "docker"
    ELSE IF "podman" \in found THEN "podman" ELSE "RuntimeError"

search_path(found) ==
    IF "podman" \in found THEN "podman"
    ELSE IF "docker" \in found THEN "docker" ELSE "RuntimeError"

\* Context.container_engine: what the property gives (value), what it leaves
\* in self._engine, and whether it searched the path
container_engine ==
    IF _engine # None
    THEN [value |-> _engine, engine |-> _engine, searched |-> FALSE]
    ELSE IF cli.container_engine # ""
    THEN [value |-> cli.container_engine, engine |-> _engine, searched |-> FALSE]
    ELSE LET ctr_eng == search_path(which)
         IN  [value |-> ctr_eng,
              engine |-> IF ctr_eng = "RuntimeError" THEN _engine ELSE ctr_eng,
              searched |-> TRUE]

\* what `git rev-parse --abbrev-ref HEAD` may give
GitResults ==
    {[returncode |-> 1, stdout |-> <<>>],
     [returncode |-> 0, stdout |-> <<"main">>],
     [returncode |-> 0, stdout |-> <<"wip", "/", "x">>]}

\* target_tag did not run git
NoGit == [returncode |-> 0, stdout |-> <<>>]

\* str.replace without the replacement
replace_nothing(text, old, new) == text

\* `text.replace(old, new)`
replace(text, old, new) ==
    [i \in 1..Len(text) |-> IF text[i] = old THEN new ELSE text[i]]

\* target_tag returns the tag given
tag_overrides == cli.tag # <<>> /\ Head(cli.tag) # "+"

\* target_tag calls _git_current_branch, which runs git
asks_git == ~tag_overrides /\ cli.current_branch = <<>>

\* Context.target_tag, given the outcome of the git query if it makes one
target_tag(git) ==
    LET suffix == IF cli.tag # <<>> /\ Head(cli.tag) = "+"
                  THEN <<".">> \o Tail(cli.tag) ELSE <<>>
        branch == IF cli.current_branch # <<>> THEN cli.current_branch
                  ELSE IF git.returncode # 0 THEN <<"UNKNOWN">>
                  ELSE replace(git.stdout, "/", "-")
    IN  IF tag_overrides THEN cli.tag
        ELSE branch \o <<".">> \o cli.distro \o suffix

\* Context.image_name: `f"{base}:{self.target_tag()}"`
image_name(git) == <<"samba-build", ":">> \o target_tag(git)

\* the port requests: a string, an integer or something else
PortRequests ==
    {[type |-> "str", v |-> "8080:80"], [type |-> "int", v |-> "80"],
     [type |-> "float", v |-> "80.5"]}

\* the body of the loop over ports: the arguments it appends
publish(port_req) ==
    (IF port_req.type = "str"
     THEN <<[opt |-> "--publish", v |-> <<port_req.v>>]>> ELSE <<>>)
    \o (IF port_req.type = "int"
        THEN <<[opt |-> "--publish", v |-> <<port_req.v, ":", port_req.v>>]>>
        ELSE <<>>)

\* the body of the loop over ports: `if isinstance(port_req, int): ... else:
\* raise ValueError`, the else of the second test
port_raises(port_req) == port_req.type # "int"

RECURSIVE publish_all(_)
publish_all(ports) ==
    IF ports = <<>> THEN <<>> ELSE publish(Head(ports)) \o publish_all(Tail(ports))

\* _container_cmd with no overlay whatever the option
overlay_ignored == NoOverlay

\* the overlay _container_cmd mounts the source directory with
mount_overlay == overlay

\* _container_cmd: the --volume argument for the source directory
volume_arg ==
    LET o == mount_overlay
    IN  IF o # NoOverlay /\ o.temporary
        THEN <<[opt |-> "--volume", v |-> <<"source_dir", ":", "homedir", ":O">>]>>
        ELSE IF o # NoOverlay
        THEN <<[opt |-> "--volume",
                v |-> <<"source_dir", ":", "homedir", ":O", ",upperdir=">>
                      \o o.upper \o <<",workdir=">> \o o.work]>>
        ELSE <<[opt |-> "--volume", v |-> <<"source_dir", ":", "homedir", ":Z">>]>>

\* _container_cmd: the command, given the engine and the image name
_container_cmd(engine, ports, name) ==
    <<[opt |-> "engine", v |-> <<engine>>], [opt |-> "run", v |-> <<>>],
      [opt |-> "--name", v |-> <<"samba_build">>]>>
    \o volume_arg
    \o <<[opt |-> "-eHOMEDIR", v |-> <<"homedir">>]>>
    \o publish_all(ports)
    \o <<[opt |-> "image", v |-> name]>>

\* the property container_engine is read
ContainerEngine ==
    /\ script = V2
    /\ call.n < MaxCalls
    /\ _engine' = container_engine.engine
    /\ call' = [fn |-> "container_engine", n |-> call.n + 1,
                value |-> container_engine.value,
                searched |-> container_engine.searched]
    /\ UNCHANGED <<log, script, cli, _steps, which, fh, hh, envVars, _did_steps, stack,
                   status, error, requests, cache, backend, ran, skipped, invoked,
                   prepare_calls, top_requested, acquire, rebuilt>>

\* an engine is installed or removed
PathChanges ==
    /\ script = V2
    /\ call.fn # ""
    /\ \E found \in SUBSET {"podman", "docker"} :
         /\ found # which
         /\ which' = found
    /\ UNCHANGED <<log, script, cli, _steps, _engine, call, fh, hh, envVars, _did_steps,
                   stack, status, error, requests, cache, backend, ran, skipped,
                   invoked, prepare_calls, top_requested, acquire, rebuilt>>

\* Context.target_tag is called
TargetTag ==
    /\ script = V2
    /\ call.n < MaxCalls
    /\ \E git \in IF asks_git THEN GitResults ELSE {NoGit} :
         /\ call' = [fn |-> "target_tag", n |-> call.n + 1, git |-> git,
                     value |-> target_tag(git)]
         /\ ran' = IF asks_git THEN Started(<<"git-rev-parse">>) ELSE ran
    /\ UNCHANGED <<log, script, cli, _steps, _engine, which, fh, hh, envVars, _did_steps,
                   stack, status, error, requests, cache, backend, skipped,
                   invoked, prepare_calls, top_requested, acquire, rebuilt>>

\* _container_cmd is called: the engine is resolved first, the ports are
\* gone through, the image name is resolved last
ContainerCmd ==
    /\ script = V2
    /\ call.n < MaxCalls
    /\ _engine' = container_engine.engine
    /\ \E ports \in UNION {[1..n -> PortRequests] : n \in 0..MaxPorts},
          git \in IF asks_git THEN GitResults ELSE {NoGit} :
         LET made(raised, cmd) ==
               [fn |-> "_container_cmd", n |-> call.n + 1, ports |-> ports,
                raised |-> raised, value |-> cmd]
         IN  IF container_engine.value = "RuntimeError"
             THEN call' = made("RuntimeError", <<>>) /\ ran' = ran
             ELSE IF \E i \in 1..Len(ports) : port_raises(ports[i])
             THEN call' = made("ValueError", <<>>) /\ ran' = ran
             ELSE /\ call' = made("", _container_cmd(container_engine.value, ports,
                                                     image_name(git)))
                  /\ ran' = IF asks_git THEN Started(<<"git-rev-parse">>) ELSE ran
    /\ UNCHANGED <<log, script, cli, _steps, which, fh, hh, envVars, _did_steps, stack,
                   status, error, requests, cache, backend, skipped, invoked,
                   prepare_calls, top_requested, acquire, rebuilt>>

(***************************************************************************)
(* BuildahBackend._do_copy_task of build-samba.py                          *)
(***************************************************************************)
\* the paths in an image, the root included
ImagePaths ==
    UNION {[1..n -> {"srv", "dest"}] : n \in 0..MaxDepth}

\* a copy that accepts every destination
is_relative_to_nothing(path, other) == FALSE

\* `path.is_relative_to(other)`: other is path or an ancestor of it
is_relative_to(path, other) ==
    Len(other) <= Len(path) /\ SubSeq(path, 1, Len(other)) = other

\* BuildahBackend._with_volumes: the volumes of the backend and then those of
\* the task, here their destinations
_with_volumes(backend_volumes, task_volumes) == backend_volumes \cup task_volumes

\* what a backend or a task may have for volumes: none or one
Volumes == {{}} \cup {{d} : d \in ImagePaths}

\* _do_copy_task(task, cid)
DoCopyTask ==
    /\ script = V1
    /\ call = NoCall
    /\ \E _volumes \in Volumes, volumes \in Volumes, dest \in ImagePaths,
          returncode \in {0, 1} :
         LET done(raised) ==
               [fn |-> "_do_copy_task", n |-> call.n + 1, _volumes |-> _volumes,
                volumes |-> volumes, dest |-> dest, raised |-> raised]
         IN  IF \E vol \in _with_volumes(_volumes, volumes) : is_relative_to(dest, vol)
             THEN call' = done("ValueError") /\ ran' = ran
             ELSE /\ call' = done(IF returncode = 0 THEN ""
                                  ELSE "CalledProcessError")
                  /\ ran' = Started(<<"copy">>)
    /\ UNCHANGED <<log, script, cli, _steps, _engine, which, fh, hh, envVars, _did_steps,
                   stack, status, error, requests, cache, backend, skipped,
                   invoked, prepare_calls, top_requested, acquire, rebuilt>>

(***************************************************************************)
(* sha256_digest (build-samba.py) and _sha256_digest (build-samba2.py)     *)
(***************************************************************************)
NoFile == [content |-> <<>>, pos |-> 0]

\* the files: byte strings of up to MaxLen bytes
Files == UNION {[1..n -> {0, 255}] : n \in 0..MaxLen}

\* the hash of the bytes fed to it, in hexadecimal
hexdigest_of(bytes) == [sha256 |-> bytes]

\* a loop that stops after its first block
at_eof_at_once(rlen, bsize) == TRUE

\* `if rlen < len(buf): break`
at_eof(rlen, bsize) == rlen < bsize

\* `rlen = fh.readinto(buf)`: the number of bytes read at the position
readinto(bsize) ==
    IF Len(fh.content) - fh.pos < bsize THEN Len(fh.content) - fh.pos ELSE bsize

\* one turn of the loop: `rlen = fh.readinto(buf); hh.update(buf[:rlen]);
\* if rlen < len(buf): break`
ReadBlock ==
    /\ call.fn = "sha256_digest"
    /\ ~call.eof
    /\ LET rlen == readinto(call.bsize)
       IN  /\ hh' = hh \o SubSeq(fh.content, fh.pos + 1, fh.pos + rlen)
           /\ fh' = [fh EXCEPT !.pos = @ + rlen]
           /\ call' = [call EXCEPT !.n = @ + 1, !.eof = at_eof(rlen, call.bsize)]
    /\ UNCHANGED <<log, script, cli, _steps, _engine, which, envVars, _did_steps, stack,
                   status, error, requests, cache, backend, ran, skipped, invoked,
                   prepare_calls, top_requested, acquire, rebuilt>>

\* after the loop: `spec_digest = hh.hexdigest()`, returned as it is by
\* build-samba.py and after "sha256:" by build-samba2.py
HexDigest ==
    /\ call.fn = "sha256_digest"
    /\ call.eof
    /\ ~call.returned
    /\ call' = [call EXCEPT
                  !.returned = TRUE,
                  !.value = [prefix |-> IF script = V2 THEN "sha256:" ELSE "",
                             hex |-> hexdigest_of(hh)]]
    /\ UNCHANGED <<log, script, cli, _steps, _engine, which, fh, hh, envVars, _did_steps,
                   stack, status, error, requests, cache, backend, ran, skipped,
                   invoked, prepare_calls, top_requested, acquire, rebuilt>>

(***************************************************************************)
(* _run of both scripts                                                    *)
(***************************************************************************)
\* the commands given to _run: the arguments, the second with a space in
\* it, and the name the counters know the command by
RunCommands ==
    {[name |-> "git-rev-parse", argv |-> <<[s |-> "git", safe |-> TRUE],
                                           [s |-> "rev-parse", safe |-> TRUE]>>],
     [name |-> "custom", argv |-> <<[s |-> "echo", safe |-> TRUE],
                                    [s |-> "a b", safe |-> FALSE]>>]}

\* shlex.quote: an argument with a character special to the shell is put
\* between single quotes
quote(c) == IF c.safe THEN <<c.s>> ELSE <<"'", c.s, "'">>

\* a log record of the first argument alone
_cmdstr_first(cmd) == quote(cmd[1])

\* `" ".join(shlex.quote(c) for c in cmd)`
RECURSIVE _cmdstr(_)
_cmdstr(cmd) ==
    IF Len(cmd) = 0 THEN <<>>
    ELSE IF Len(cmd) = 1 THEN quote(cmd[1])
    ELSE quote(cmd[1]) \o <<" ">> \o _cmdstr(Tail(cmd))

\* `if ctx and ctx.dry_run`; build-samba.py has neither
not_executing == script = V2 /\ call.ctx /\ cli.dry_run

\* _run(cmd, ..., ctx=ctx) is called
RunCalled ==
    /\ call.fn \in {"", "_run"}
    /\ call.n < MaxCalls
    /\ call.fn = "_run" => call.pc \in {"returned", "raised"}
    /\ \E cmd \in RunCommands, ctx \in IF script = V2 THEN BOOLEAN ELSE {FALSE} :
         call' = [fn |-> "_run", n |-> call.n + 1, cmd |-> cmd, ctx |-> ctx,
                  pc |-> "called"]
    /\ UNCHANGED <<log, script, cli, _steps, _engine, which, fh, hh, envVars,
                   _did_steps, stack, status, error, requests, cache, backend,
                   ran, skipped, invoked, prepare_calls, top_requested, acquire,
                   rebuilt>>

\* `log.info("(dry-run) Not Executing command: %s", _cmdstr(cmd))`
LogNotExecuting ==
    /\ call.fn = "_run"
    /\ call.pc = "called"
    /\ not_executing
    /\ log' = Append(log, [level |-> "INFO", msg |-> "(dry-run) Not Executing command",
                           cmd |-> _cmdstr(call.cmd.argv)])
    /\ call' = [call EXCEPT !.pc = "not-executing"]
    /\ UNCHANGED <<script, cli, _steps, _engine, which, fh, hh, envVars,
                   _did_steps, stack, status, error, requests, cache, backend,
                   ran, skipped, invoked, prepare_calls, top_requested, acquire,
                   rebuilt>>

\* `raise DidNotExecute(cmd)`
RaiseDidNotExecute ==
    /\ call.fn = "_run"
    /\ call.pc = "not-executing"
    /\ skipped' = [skipped EXCEPT ![call.cmd.name] = @ + 1]
    /\ call' = [call EXCEPT !.pc = "raised"]
    /\ UNCHANGED <<log, script, cli, _steps, _engine, which, fh, hh, envVars,
                   _did_steps, stack, status, error, requests, cache, backend,
                   ran, invoked, prepare_calls, top_requested, acquire, rebuilt>>

\* `log.info("Executing command: %s", _cmdstr(cmd))`
LogExecuting ==
    /\ call.fn = "_run"
    /\ call.pc = "called"
    /\ ~not_executing
    /\ log' = Append(log, [level |-> "INFO", msg |-> "Executing command",
                           cmd |-> _cmdstr(call.cmd.argv)])
    /\ call' = [call EXCEPT !.pc = "executing"]
    /\ UNCHANGED <<script, cli, _steps, _engine, which, fh, hh, envVars,
                   _did_steps, stack, status, error, requests, cache, backend,
                   ran, skipped, invoked, prepare_calls, top_requested, acquire,
                   rebuilt>>

\* `return subprocess.run(cmd, *args, **kwargs)`
SubprocessRun ==
    /\ call.fn = "_run"
    /\ call.pc = "executing"
    /\ ran' = Started(<<call.cmd.name>>)
    /\ call' = [call EXCEPT !.pc = "returned"]
    /\ UNCHANGED <<log, script, cli, _steps, _engine, which, fh, hh, envVars,
                   _did_steps, stack, status, error, requests, cache, backend,
                   skipped, invoked, prepare_calls, top_requested, acquire,
                   rebuilt>>

(***************************************************************************)
(* BuildahBackend of build-samba.py, statement by statement: the body of a *)
(* `with` block, immediate, __exit__ and _apply.  call.fn is the method in *)
(* progress, call.pc its position, call.made the working containers made,  *)
(* call.exc the exception being propagated.                                *)
(***************************************************************************)
\* the tasks a block may append, and the task it may give to immediate
AppendedTasks == {"mkdir", "copy-sources"}
ImmediateTask == "cat-os-release"

\* the record _run logs for a buildah command
Executing(name) == [level |-> "INFO", msg |-> "Executing command", cmd |-> <<name>>]

\* an __exit__ that applies the tasks whatever ended the block
__exit__always(exc_type) == TRUE

\* __exit__: `if not exc_type: self._apply()`
__exit__(exc_type) == exc_type = ""

\* _apply after _new and after each task: the next task, else _commit `if
\* self._img`, else the `finally`
after_task(i) ==
    IF i <= Len(backend.tasks) THEN "task"
    ELSE IF backend.img THEN "commit" ELSE "rm"

\* `builder.append(task)` in the body of the block
BlockAppend ==
    /\ call.fn = "with"
    /\ Len(backend.tasks) < MaxTasks
    /\ \E task \in AppendedTasks : backend' = [backend EXCEPT !.tasks = Append(@, task)]
    /\ UNCHANGED <<log, call, script, cli, _steps, _engine, which, fh, hh, envVars,
                   _did_steps, stack, status, error, requests, cache, ran, skipped,
                   invoked, prepare_calls, top_requested, acquire, rebuilt>>

\* `builder.immediate(task, check=check)` in the body of the block
BlockImmediate ==
    /\ call.fn = "with"
    /\ call.n < MaxCalls
    /\ \E check \in BOOLEAN :
         call' = [call EXCEPT !.fn = "immediate", !.n = @ + 1, !.pc = "new",
                              !.check = check]
    /\ UNCHANGED <<log, backend, script, cli, _steps, _engine, which, fh, hh,
                   envVars, _did_steps, stack, status, error, requests, cache, ran,
                   skipped, invoked, prepare_calls, top_requested, acquire, rebuilt>>

\* the body of the block ends, by its last statement or by an exception of
\* its own, and __exit__ is called
BlockExit ==
    /\ call.fn = "with"
    /\ \E exc_type \in {"", "ValueError"} :
         call' = IF __exit__(exc_type)
                 THEN [call EXCEPT !.fn = "_apply", !.pc = "new", !.exc = exc_type]
                 ELSE [call EXCEPT !.fn = "", !.pc = "exited", !.exc = exc_type]
    /\ UNCHANGED <<log, backend, script, cli, _steps, _engine, which, fh, hh,
                   envVars, _did_steps, stack, status, error, requests, cache, ran,
                   skipped, invoked, prepare_calls, top_requested, acquire, rebuilt>>

\* _new: `buildah from` with check=True.  A failure leaves immediate or
\* _apply before the `try`, and the block if it was immediate
BuildahFrom ==
    /\ call.fn \in {"immediate", "_apply"}
    /\ call.pc = "new"
    /\ log' = Append(log, Executing("from"))
    /\ \E returncode \in {0, 1} :
         call' = IF returncode # 0
                 THEN [call EXCEPT !.fn = "", !.pc = "exited",
                                   !.exc = "CalledProcessError"]
                 ELSE [call EXCEPT !.made = @ + 1, !.i = 1,
                                   !.pc = IF call.fn = "immediate" THEN "task"
                                          ELSE after_task(1)]
    /\ UNCHANGED <<backend, script, cli, _steps, _engine, which, fh, hh, envVars,
                   _did_steps, stack, status, error, requests, cache, ran, skipped,
                   invoked, prepare_calls, top_requested, acquire, rebuilt>>

\* immediate: `result = _run(cmd, check=check, ...)`, then the `finally`
ImmediateRun ==
    /\ call.fn = "immediate"
    /\ call.pc = "task"
    /\ log' = Append(log, Executing(ImmediateTask))
    /\ \E returncode \in {0, 1} :
         call' = [call EXCEPT !.pc = "rm",
                              !.exc = IF returncode # 0 /\ call.check
                                      THEN "CalledProcessError" ELSE ""]
    /\ UNCHANGED <<backend, script, cli, _steps, _engine, which, fh, hh, envVars,
                   _did_steps, stack, status, error, requests, cache, ran, skipped,
                   invoked, prepare_calls, top_requested, acquire, rebuilt>>

\* _apply: `self._do_task(task, cid)` for the next of self._tasks, a
\* command with check=True: a failure goes to the `finally`
DoTask ==
    /\ call.fn = "_apply"
    /\ call.pc = "task"
    /\ log' = Append(log, Executing(backend.tasks[call.i]))
    /\ \E returncode \in {0, 1} :
         call' = IF returncode # 0
                 THEN [call EXCEPT !.pc = "rm", !.exc = "CalledProcessError"]
                 ELSE [call EXCEPT !.i = @ + 1, !.pc = after_task(call.i + 1)]
    /\ UNCHANGED <<backend, script, cli, _steps, _engine, which, fh, hh, envVars,
                   _did_steps, stack, status, error, requests, cache, ran, skipped,
                   invoked, prepare_calls, top_requested, acquire, rebuilt>>

\* _apply: `self._commit(cid)`: `buildah config` if there are annotations
\* and `buildah commit`, neither checked
Commit ==
    /\ call.fn = "_apply"
    /\ call.pc = "commit"
    /\ log' = log \o (IF backend.annotations # {} THEN <<Executing("config")>>
                      ELSE <<>>) \o <<Executing("commit")>>
    /\ \E config_ok \in BOOLEAN, commit_ok \in BOOLEAN :
         image' = Committed(config_ok, commit_ok)
    /\ call' = [call EXCEPT !.pc = "rm"]
    /\ UNCHANGED <<backend, script, cli, _steps, _engine, which, fh, hh, srpms,
                   spec_file, srpm_path, dirs, build_dirs, _did_steps, stack,
                   status, error, requests, cache, ran, skipped, invoked,
                   prepare_calls, top_requested, acquire, rebuilt>>

\* the `finally` of immediate and of _apply: `self._rm(cid)`, `buildah rm`
\* with check=True; then the exception in flight goes on, or immediate
\* returns to the block, or _apply and __exit__ return
BuildahRm ==
    /\ call.fn \in {"immediate", "_apply"}
    /\ call.pc = "rm"
    /\ log' = Append(log, Executing("rm"))
    /\ \E returncode \in {0, 1} :
         LET exc == IF returncode # 0 THEN "CalledProcessError" ELSE call.exc
         IN  call' = IF exc = "" /\ call.fn = "immediate"
                     THEN [call EXCEPT !.fn = "with", !.pc = "body"]
                     ELSE [call EXCEPT !.fn = "", !.pc = "exited", !.exc = exc]
    /\ UNCHANGED <<backend, script, cli, _steps, _engine, which, fh, hh, envVars,
                   _did_steps, stack, status, error, requests, cache, ran, skipped,
                   invoked, prepare_calls, top_requested, acquire, rebuilt>>

(***************************************************************************)
(* The run                                                                 *)
(***************************************************************************)
\* the command lines of a script; options a script does not have are fixed
CommandLines(s) ==
    [no_prereqs : BOOLEAN,
     dry_run : IF s = V2 THEN BOOLEAN ELSE {FALSE},
     default_spec : IF s = V1 THEN BOOLEAN ELSE {TRUE},
     overlay_dir : {""},
     execute : BOOLEAN]

\* the state main starts the loop over cli.steps in
Start ==
    /\ _did_steps = {}
    /\ stack = <<>>
    /\ status = "running"
    /\ error = ""
    /\ requests = 0
    /\ cache = [rpm_version |-> "None", spec_sha256_sum |-> ""]
    /\ backend = NoBackend
    /\ spec_file = "specA"
    /\ srpm_path = {}
    /\ dirs = {}
    /\ build_dirs = [tarball |-> {}, srpm |-> {}, find |-> {}]
    /\ _engine = None
    /\ call = NoCall
    /\ fh = NoFile
    /\ hh = <<>>
    /\ log = <<>>
    /\ ran = [c \in Commands |-> 0]
    /\ skipped = [c \in Commands |-> 0]
    /\ invoked = [s \in AllSteps |-> 0]
    /\ prepare_calls = 0
    /\ top_requested = {}
    /\ acquire = <<>>
    /\ rebuilt = {}

Init ==
    /\ script \in {V1, V2}
    /\ cli \in CommandLines(script)
    /\ which = {"podman"}
    /\ _steps = IF script = V1 THEN Steps1 ELSE Steps2
    /\ image \in Images
    /\ srpms = {}
    /\ Start

Next ==
    \/ HelpBuildSteps
    \/ MainWants
    \/ MainDefault
    \/ MainExit
    \/ HandlerWants
    \/ HandlerReturn
    \/ UserCommand
    \/ Local
    \/ Inspect
    \/ Pull
    \/ NeedBuild
    \/ RpmInfo
    \/ Find
    \/ Glob
    \/ Require
    \/ Sync
    \/ Backend
    \/ Immediate
    \/ Annotate
    \/ AppendTask
    \/ CheckDigest
    \/ Apply

Spec == Init /\ [][Next]_vars


(***************************************************************************)
(* Builder with an arbitrary registry: Builder.set registers any function  *)
(* for a step, and a handler may request any step.                         *)
(***************************************************************************)
EngineSteps == {CONTAINER, CONFIGURE, BUILD}

\* the bodies of handlers that request up to MaxPrereqs steps and return
HandlerBodies ==
    {[i \in 1..Len(r) |-> wants(r[i])] :
        r \in UNION {[1..n -> EngineSteps] : n \in 0..MaxPrereqs}}

InitEngine ==
    /\ script \in {V1, V2}
    /\ cli \in [no_prereqs : BOOLEAN, dry_run : {FALSE}, default_spec : {TRUE},
                 overlay_dir : {""}, execute : {TRUE}]
    /\ _steps \in [EngineSteps -> HandlerBodies]
    /\ which = {"podman"}
    /\ image = NoImage
    /\ srpms = {}
    /\ Start

NextEngine ==
    \/ MainWants
    \/ MainExit
    \/ HandlerWants
    \/ HandlerReturn

SpecEngine == InitEngine /\ [][NextEngine]_vars

(***************************************************************************)
(* build-samba2.py with the option --overlay-dir                           *)
(***************************************************************************)
InitOverlay ==
    /\ script = V2
    /\ cli \in [no_prereqs : BOOLEAN, dry_run : BOOLEAN, default_spec : {TRUE},
                 overlay_dir : {"-", "obase"}, execute : {TRUE}]
    /\ _steps = Steps2
    /\ which = {"podman"}
    /\ image \in Images
    /\ srpms = {}
    /\ Start

NextOverlay ==
    \/ HelpBuildSteps
    \/ MainWants
    \/ MainExit
    \/ HandlerWants
    \/ HandlerReturn
    \/ UserCommand
    \/ Local
    \/ Inspect
    \/ Pull
    \/ NeedBuild
    \/ RpmInfo
    \/ Find
    \/ Glob
    \/ Require
    \/ Sync

SpecOverlay == InitOverlay /\ [][NextOverlay]_vars

(***************************************************************************)
(* The functions of a context and of a backend, called on their own with   *)
(* arbitrary options and arguments.                                        *)
(***************************************************************************)
\* the options Context reads, for build-samba2.py
ContextOptions ==
    [container_engine : {"", "nerdctl"},
     tag : {<<>>, <<"v1">>, <<"+">>, <<"+", "x">>},
     current_branch : {<<>>, <<"feature", "/", "y">>},
     distro : {<<"centos9">>},
     overlay_dir : {"", "-", "obase"}]

InitCalls ==
    /\ script = V2
    /\ cli \in ContextOptions
    /\ which \in SUBSET {"podman", "docker"}
    /\ _steps = Steps2
    /\ image = NoImage
    /\ srpms = {}
    /\ Start

NextCalls ==
    \/ ContainerEngine
    \/ PathChanges
    \/ TargetTag
    \/ ContainerCmd

SpecCalls == InitCalls /\ [][NextCalls]_vars

\* a backend of build-samba.py is given a copy task
InitCopy ==
    /\ script = V1
    /\ cli \in CommandLines(V1)
    /\ which = {"podman"}
    /\ _steps = Steps1
    /\ image \in Images
    /\ srpms = {}
    /\ Start

NextCopy == DoCopyTask

SpecCopy == InitCopy /\ [][NextCopy]_vars

\* main of build-samba2.py has made its first request, of an arbitrary
\* registered step: `ctx.build.wants(step, ctx, top=True)` has called
\* prepare_env_once and entered the handler
InitWants ==
    /\ script = V2
    /\ cli \in [no_prereqs : BOOLEAN, dry_run : BOOLEAN, default_spec : {TRUE},
                 overlay_dir : {""}, execute : {TRUE}]
    /\ _steps = Steps2
    /\ which = {"podman"}
    /\ image \in Images
    /\ srpms = {}
    /\ _did_steps = {}
    /\ status = "running"
    /\ error = ""
    /\ requests = 1
    /\ cache = [rpm_version |-> "None", spec_sha256_sum |-> ""]
    /\ backend = NoBackend
    /\ spec_file = "specA"
    /\ srpm_path = {}
    /\ dirs = {}
    /\ build_dirs = [tarball |-> {}, srpm |-> {}, find |-> {}]
    /\ _engine = None
    /\ call = NoCall
    /\ fh = NoFile
    /\ hh = <<>>
    /\ log = <<>>
    /\ ran = [c \in Commands |-> 0]
    /\ skipped = [c \in Commands |-> 0]
    /\ prepare_calls = 1
    /\ acquire = <<>>
    /\ rebuilt = {}
    /\ \E step \in DOMAIN Steps2 :
         /\ stack = <<Frame(step, TRUE)>>
         /\ invoked = [s \in AllSteps |-> IF s = step THEN 1 ELSE 0]
         /\ top_requested = {step}

\* the handlers at work, and main once the request has returned
NextWants ==
    \/ MainExit
    \/ HandlerWants
    \/ HandlerReturn
    \/ UserCommand
    \/ Local
    \/ Inspect
    \/ Pull
    \/ NeedBuild
    \/ RpmInfo
    \/ Find
    \/ Glob
    \/ Require
    \/ Sync

\* no step is suspended for ever: each external command returns
SpecWants == InitWants /\ [][NextWants]_vars /\ WF_vars(NextWants)

\* _run is called with arbitrary commands, with and without a context
InitRun ==
    /\ script \in {V1, V2}
    /\ cli \in CommandLines(script)
    /\ which = {"podman"}
    /\ _steps = IF script = V1 THEN Steps1 ELSE Steps2
    /\ image \in Images
    /\ srpms = {}
    /\ Start

NextRun ==
    \/ RunCalled
    \/ LogNotExecuting
    \/ RaiseDidNotExecute
    \/ LogExecuting
    \/ SubprocessRun

SpecRun == InitRun /\ [][NextRun]_vars

\* `with BuildahBackend(...) as builder:` has been entered, for an image to
\* commit or not, with annotations or not
InitBackend ==
    /\ script = V1
    /\ cli \in CommandLines(V1)
    /\ which = {"podman"}
    /\ _steps = Steps1
    /\ image \in Images
    /\ srpms = {}
    /\ _did_steps = {}
    /\ stack = <<>>
    /\ status = "running"
    /\ error = ""
    /\ requests = 0
    /\ cache = [rpm_version |-> "None", spec_sha256_sum |-> ""]
    /\ \E img \in BOOLEAN, annotations \in {{}, Annotations("specA")} :
         backend = [open |-> TRUE, img |-> img, tasks |-> <<>>,
                    annotations |-> annotations]
    /\ spec_file = "specA"
    /\ srpm_path = {}
    /\ dirs = {}
    /\ build_dirs = [tarball |-> {}, srpm |-> {}, find |-> {}]
    /\ _engine = None
    /\ call = [fn |-> "with", n |-> 0, pc |-> "body", check |-> TRUE, i |-> 0,
               made |-> 0, exc |-> ""]
    /\ fh = NoFile
    /\ hh = <<>>
    /\ log = <<>>
    /\ ran = [c \in Commands |-> 0]
    /\ skipped = [c \in Commands |-> 0]
    /\ invoked = [s \in AllSteps |-> 0]
    /\ prepare_calls = 0
    /\ top_requested = {}
    /\ acquire = <<>>
    /\ rebuilt = {}

NextBackend ==
    \/ BlockAppend
    \/ BlockImmediate
    \/ BlockExit
    \/ BuildahFrom
    \/ ImmediateRun
    \/ DoTask
    \/ Commit
    \/ BuildahRm

SpecBackend == InitBackend /\ [][NextBackend]_vars

\* sha256_digest(path, bsize) has opened the file
InitDigest ==
    /\ script \in {V1, V2}
    /\ cli \in CommandLines(script)
    /\ _steps = IF script = V1 THEN Steps1 ELSE Steps2
    /\ which = {"podman"}
    /\ image = NoImage
    /\ srpms = {}
    /\ _did_steps = {}
    /\ stack = <<>>
    /\ status = "running"
    /\ error = ""
    /\ requests = 0
    /\ cache = [rpm_version |-> "None", spec_sha256_sum |-> ""]
    /\ backend = NoBackend
    /\ spec_file = "specA"
    /\ srpm_path = {}
    /\ dirs = {}
    /\ build_dirs = [tarball |-> {}, srpm |-> {}, find |-> {}]
    /\ _engine = None
    /\ ran = [c \in Commands |-> 0]
    /\ skipped = [c \in Commands |-> 0]
    /\ invoked = [s \in AllSteps |-> 0]
    /\ prepare_calls = 0
    /\ top_requested = {}
    /\ acquire = <<>>
    /\ rebuilt = {}
    /\ hh = <<>>
    /\ log = <<>>
    /\ \E content \in Files, bsize \in 1..MaxBsize :
         /\ fh = [content |-> content, pos |-> 0]
         /\ call = [fn |-> "sha256_digest", n |-> 0, bsize |-> bsize,
                    eof |-> FALSE, returned |-> FALSE,
                    value |-> [prefix |-> "", hex |-> hexdigest_of(<<>>)]]

NextDigest ==
    \/ ReadBlock
    \/ HexDigest

\* the loop is not suspended for ever
SpecDigest == InitDigest /\ [][NextDigest]_vars /\ WF_vars(NextDigest)

(***************************************************************************)
(* Properties                                                              *)
(***************************************************************************)
\* the run failed in a statement of the given kind of the innermost handler
FailedAt(kind) ==
    /\ status = "failed"
    /\ stack # <<>>
    /\ Top.pc <= Len(Code)
    /\ Instr.k = kind

\* the steps whose handler has been entered
Entered == {s \in AllSteps : invoked[s] > 0}

\* C1: in both scripts, whatever main and the handlers request, in any order
\* and with repeats, the handler of a step is entered at most once in a run,
\* and a step recorded in _did_steps has had its one invocation: a later
\* request for it enters no handler.
C1_HandlerAtMostOnce ==
    \A s \in AllSteps :
        /\ invoked[s] <= 1
        /\ s \in _did_steps => invoked[s] = 1

\* main requested the same step twice and its handler ran once
C1_Witness ==
    /\ requests = 2
    /\ stack = <<>>
    /\ \E s \in AllSteps :
         top_requested = {s} /\ s \in _did_steps /\ invoked[s] = 1

\* C2: build-samba2.py without --no-prereqs: when a handler is about to issue
\* its own command (configure, make, git archive, rpmbuild -bs, rpmbuild
\* --rebuild, the custom command, the interactive shell, the image build),
\* every step it requested through wants is recorded in _did_steps.
C2_PrereqsDoneBeforeCommand ==
    (script = V2 /\ ~cli.no_prereqs /\ At("run")) => Top.req \subseteq _did_steps

\* bc_build is about to run make, and CONFIGURE, which it requested, has run
C2_Witness ==
    /\ script = V2
    /\ ~cli.no_prereqs
    /\ At("run")
    /\ Instr.a = "make"
    /\ Top.req = {CONFIGURE}
    /\ invoked[CONFIGURE] = 1
    /\ ran["configure"] = 1

\* C3: with --no-prereqs the handlers entered are exactly those of the steps
\* main requested with top=True, each once; no handler runs beneath another;
\* and a request made by a handler returns at once: it enters no handler and
\* leaves _did_steps alone.
C3_NoPrereqsOnlyTop ==
    /\ [](cli.no_prereqs =>
            /\ Entered = top_requested
            /\ \A s \in AllSteps : invoked[s] <= 1
            /\ \A i \in 1..Len(stack) : stack[i].top
            /\ Len(stack) <= 1)
    /\ [][(cli.no_prereqs /\ At("wants")) =>
            /\ _did_steps' = _did_steps
            /\ invoked' = invoked
            /\ status' = status
            /\ stack' = [stack EXCEPT ![Len(stack)].pc = @ + 1,
                                      ![Len(stack)].req = @ \cup {Instr.a}]]_vars

\* under --no-prereqs a handler requested CONTAINER, which did not run, and the
\* handler went on
C3_Witness ==
    /\ cli.no_prereqs
    /\ status = "running"
    /\ stack # <<>>
    /\ Top.req = {CONTAINER}
    /\ Top.pc = 2
    /\ invoked[CONTAINER] = 0
    /\ CONTAINER \notin _did_steps

\* C4: in build-samba2.py prepare_env_once is called exactly once per run, by
\* the request that enters the first handler, and never again.
C4_PrepareEnvOnce ==
    script = V2 => prepare_calls = (IF Entered = {} THEN 0 ELSE 1)

\* C5: a request for a step whose handler is in progress enters no handler (it
\* fails with a CycleError): no step is in progress twice.
C5_NoReentry ==
    \A i, j \in 1..Len(stack) : stack[i].step = stack[j].step => i = j

\* the packaging commands of the two scripts
PackagingCommands ==
    {"rsync", "cp", "git-archive", "rpmbuild-bs", "rpmbuild-rebuild"}

\* the working image carries a spec digest that is not the one of the spec file
StaleImage ==
    /\ image.present
    /\ HasKey(image.annotations, ANN_SPEC_DIGEST)
    /\ Value(image.annotations, ANN_SPEC_DIGEST)
         # prefixed_digest(sha256_digest(spec_file))

\* a packaging step (SOURCE_RPM, RPM, PACKAGES) is in progress
Packaging == \E i \in 1..Len(stack) : stack[i].step \in {SOURCE_RPM, RPM, PACKAGES}

\* C6: while a packaging step is in progress and the working image's stored
\* spec digest differs from the digest of the spec file, no packaging command
\* (rsync, cp, git archive, rpmbuild) is started: the step fails with a
\* digest mismatch instead.
C6_StaleImageRunsNothing ==
    [][(StaleImage /\ Packaging) =>
         \A c \in PackagingCommands : ran'[c] = ran[c]]_vars

\* C7: build-samba.py: cmd_build_srpm does not fail in its digest test when the
\* working image has no spec digest annotation or no marker annotation: the
\* comparison is skipped.
C7_UnannotatedImageReused ==
    ~ /\ script = V1
      /\ FailedAt("check_digest")
      /\ \/ ~HasKey(image.annotations, ANN_SPEC_DIGEST)
         \/ ~HasKey(image.annotations, ANN_BC)

\* C8: build-samba.py: with a working image that BUILD_CONTAINER committed in
\* this run from the spec file, carrying the marker and 'sha256:' + the file's
\* digest, cmd_build_srpm does not fail in its digest test.
C8_DigestRoundTrip ==
    ~ /\ script = V1
      /\ BUILD_CONTAINER \in _did_steps
      /\ image = [present |-> TRUE,
                  annotations |-> Annotations(sha256_digest(spec_file))]
      /\ FailedAt("check_digest")

\* the first probe of get_container found the image in local storage
CacheHit == acquire # <<>> /\ acquire[1] = <<CACHE, TRUE>>

\* C9: when get_container finds the image with its inspect probe, it pulls
\* nothing, requests no build, no handler (BUILD_CONTAINER, DNF_CACHE) is
\* entered beneath it, and it returns without failing, so that the step that
\* requested it goes on with its own work and CONTAINER is recorded as done.
C9_CacheHitNoRebuild ==
    CacheHit =>
        /\ acquire = << <<CACHE, TRUE>> >>
        /\ ran["pull"] = 0
        /\ rebuilt = {}
        /\ \A i \in 1..Len(stack) :
             stack[i].step = CONTAINER =>
                /\ i = Len(stack)
                /\ status = "running"
                /\ stack[i].pc = Len(_steps[CONTAINER]) + 1
        /\ (\A i \in 1..Len(stack) : stack[i].step # CONTAINER)
             => CONTAINER \in _did_steps

\* bc_build_rpm, after a cache hit of its CONTAINER request, has queried the
\* rpm version and is about to search for the source package; nothing was
\* built or pulled
C9_Witness ==
    /\ script = V2
    /\ CacheHit
    /\ At("find")
    /\ Top.step = RPM
    /\ CONTAINER \in Top.req
    /\ ran["rpm-q"] = 1
    /\ invoked[BUILD_CONTAINER] = 0
    /\ invoked[DNF_CACHE] = 0

\* the place of an image source in the order cache, pull, build
Priority(source) == IF source = CACHE THEN 1 ELSE IF source = PULL THEN 2 ELSE 3

\* the image sources the option value permits (none given: all of them)
Permitted(image_sources) ==
    IF image_sources = {} THEN {CACHE, PULL, BUILD} ELSE image_sources

\* C10: get_container attempts image sources in the order cache, pull, build:
\* a pull only if cache is not permitted or its probe failed, a request for
\* BUILD_CONTAINER only if every permitted earlier source failed, and never a
\* source that is not permitted.
C10_SourcePriority ==
    /\ \A i, j \in 1..Len(acquire) :
         i < j => Priority(acquire[i][1]) < Priority(acquire[j][1])
    /\ \A k \in 1..Len(stack) :
         (stack[k].step = CONTAINER /\ acquire # <<>>) =>
            LET permitted == Permitted(stack[k].image_sources)
                FailedBefore(source, i) ==
                    \E j \in 1..(i - 1) : acquire[j] = <<source, FALSE>>
            IN  \A i \in 1..Len(acquire) :
                  /\ acquire[i][1] \in permitted
                  /\ acquire[i][1] = PULL =>
                        (CACHE \notin permitted \/ FailedBefore(CACHE, i))
                  /\ acquire[i][1] = BUILD =>
                        \A source \in permitted \ {BUILD} : FailedBefore(source, i)

\* cache and pull both failed and get_container requested BUILD_CONTAINER,
\* whose handler runs
C10_Witness ==
    /\ acquire = << <<CACHE, FALSE>>, <<PULL, FALSE>>, <<BUILD, TRUE>> >>
    /\ stack # <<>>
    /\ Top.step = BUILD_CONTAINER
    /\ invoked[BUILD_CONTAINER] = 1

\* some permitted source gave get_container the image: the inspect probe found
\* it, the pull succeeded, or BUILD_CONTAINER ran to completion
Acquired ==
    \/ \E i \in 1..Len(acquire) : acquire[i] \in {<<CACHE, TRUE>>, <<PULL, TRUE>>}
    \/ BUILD_CONTAINER \in _did_steps

\* C11: the CONTAINER step is recorded as done only if a permitted acquisition
\* strategy succeeded (found by the cache probe, pulled, or BUILD_CONTAINER ran
\* to completion), whatever the image sources, no_prereqs and dry-run are.
C11_ContainerDoneMeansAcquired ==
    CONTAINER \in _did_steps => Acquired

\* C12: in get_container of both scripts a non-zero exit of the inspect or the
\* pull probe raises nothing: the run never fails in a probe.
C12_ProbeFailureInformational ==
    ~(FailedAt("inspect") \/ FailedAt("pull"))

\* the exploratory probes, issued with check=False
Probes == {"inspect", "pull", "find"}

\* C13: with dry-run enabled in build-samba2.py the only external commands
\* for which a process is started are the exploratory probes; every other
\* command (image build, commands in the container, version and checksum
\* queries) is logged only.
C13_DryRunOnlyProbes ==
    (script = V2 /\ cli.dry_run) => \A c \in Commands \ Probes : ran[c] = 0

\* the steps that build something
BuildSteps == {BUILD, CONFIGURE, TARBALL, SOURCE_RPM, RPM, PACKAGES}

\* C14: with dry-run enabled in build-samba2.py a run that requests build
\* steps does not fail, unless no image source is available or the distro has
\* no packaging: a skipped command aborts no step.
C14_DryRunSucceeds ==
    (script = V2 /\ cli.dry_run /\ top_requested \subseteq BuildSteps
       /\ status = "failed")
    => (FailedAt("need_build") \/ FailedAt("require"))

\* C15: in build-samba2.py a command issued with the context is skipped
\* exactly when dry-run is on; the skip is swallowed at the call site (the
\* handler goes on with its next statement, no DidNotExecute ends the run), and
\* commands issued without the context are never skipped; with dry-run off the
\* command is started, and one run with check=True that cannot succeed (there
\* is no working image to run it in) ends the run with the subprocess error or
\* CommandFailed.
C15_DidNotExecuteSwallowed ==
    /\ [](script = V2 =>
            /\ error # "DidNotExecute"
            /\ (\E c \in Commands : skipped[c] > 0) => cli.dry_run
            /\ \A c \in {"inspect", "pull", "find", "rpm-q", "sha256sum"} :
                 skipped[c] = 0)
    /\ [][(script = V2 /\ At("run")) =>
            IF cli.dry_run
            THEN /\ ran' = ran
                 /\ skipped' = [skipped EXCEPT ![Instr.a] = @ + 1]
                 /\ status' = "running"
                 /\ stack' = [stack EXCEPT ![Len(stack)].pc = @ + 1]
            ELSE /\ skipped' = skipped
                 /\ ran' = [ran EXCEPT ![Instr.a] = @ + 1]
                 /\ (Instr.check /\ NeedsImage(Instr.a) /\ ~image.present)
                      => /\ status' = "failed"
                         /\ error' \in {"CommandFailed", "CalledProcessError"}]_vars

\* under dry-run BUILD_CONTAINER skipped the image build and completed
C15_Witness ==
    /\ script = V2
    /\ cli.dry_run
    /\ status = "running"
    /\ skipped["container-build"] = 1
    /\ ran["container-build"] = 0
    /\ BUILD_CONTAINER \in _did_steps

\* C16: with dry-run off in build-samba2.py, a run that ends in a failing
\* command other than a probe ends with CommandFailed.
C16_FailureIsCommandFailed ==
    (script = V2 /\ ~cli.dry_run /\ (FailedAt("run") \/ FailedAt("rpm_info")))
    => error = "CommandFailed"

\* C17: when the RPM step holds more than one candidate source package, it
\* starts no rpmbuild --rebuild command.
C17_NeverGuess ==
    (\E i \in 1..Len(stack) : stack[i].step = RPM /\ Len(stack[i].paths) > 1)
    => ran["rpmbuild-rebuild"] = 0

\* C18: in build-samba2.py the source packages bc_build_rpm goes on with,
\* after the first search or after the one that follows SOURCE_RPM, are
\* matches of the search of the build directory.
C18_RetrySameSearch ==
    script = V2 =>
        \A i \in 1..Len(stack) :
            stack[i].step = RPM =>
                \A j \in 1..Len(stack[i].paths) : stack[i].paths[j].dir = build_dir

\* the statement of the RPM handler that builds the rpmbuild --rebuild command
RebuildAt == IF script = V2 THEN 6 ELSE 4

\* C19: when the search of the build directory finds exactly one source
\* package, the RPM step goes on with it: the rpmbuild --rebuild command names
\* that path and no other, and in build-samba2.py the step does not request
\* SOURCE_RPM and skips the second search.
C19_SingleMatchUsed ==
    \A i \in 1..Len(stack) :
        LET f == stack[i]
        IN  (f.step = RPM /\ Len(f.paths) = 1
               /\ f.paths[1].dir = (IF script = V2 THEN build_dir ELSE "srv/dest"))
            => /\ f.pc >= RebuildAt
               /\ script = V2 => SOURCE_RPM \notin f.req
               /\ srpm_path \subseteq {f.paths[1]}
               /\ f.pc > RebuildAt => srpm_path = {f.paths[1]}
               /\ (f.pc = RebuildAt /\ status = "running") => srpm_path = {}

\* bc_build_rpm found one source package left by an earlier run and rebuilt
\* it; no source package was built
C19_Witness ==
    /\ script = V2
    /\ ~cli.dry_run
    /\ stack # <<>>
    /\ Top.step = RPM
    /\ Top.pc = RebuildAt + 1
    /\ Top.paths = <<[dir |-> build_dir, n |-> 2]>>
    /\ srpm_path = {[dir |-> build_dir, n |-> 2]}
    /\ ran["rpmbuild-rebuild"] = 1
    /\ invoked[SOURCE_RPM] = 0

\* no image in storage or in the registry, every step on, one request for
\* PACKAGES
ScenarioA ==
    /\ script = V2
    /\ ~cli.no_prereqs
    /\ ~cli.dry_run
    /\ top_requested = {PACKAGES}
    /\ acquire = << <<CACHE, FALSE>>, <<PULL, FALSE>>, <<BUILD, TRUE>> >>

\* C20: in scenario A the run does not fail for want of a source package once
\* SOURCE_RPM has built one: the RPM step goes on to rebuild it.
C20_ScenarioACompletes ==
    (ScenarioA /\ SOURCE_RPM \in _did_steps /\ srpms # {}) => ~FailedAt("glob")

\* path p is path q or an ancestor of it
IsPrefix(p, q) == Len(p) <= Len(q) /\ SubSeq(q, 1, Len(p)) = p

\* the commands run in a container of the working image (_container_cmd)
ContainerRun ==
    {"configure", "make", "rpm-q", "sha256sum", "git-archive", "rpmbuild-bs",
     "find", "rpmbuild-rebuild", "custom", "interactive"}

\* C24: with a persistent overlay the upper and work directories are distinct
\* children of the overlay directory, neither inside the other, and both exist
\* once a container run command has been issued (run, or logged by a dry run),
\* whatever step is requested and with or without no_prereqs.
C24_OverlayDirsReady ==
    (script = V2 /\ overlay # NoOverlay /\ ~overlay.temporary) =>
        /\ overlay.upper # overlay.work
        /\ ~IsPrefix(overlay.upper, overlay.work)
        /\ ~IsPrefix(overlay.work, overlay.upper)
        /\ SubSeq(overlay.upper, 1, Len(overlay.upper) - 1) = resolve(cli.overlay_dir)
        /\ SubSeq(overlay.work, 1, Len(overlay.work) - 1) = resolve(cli.overlay_dir)
        /\ (\E c \in ContainerRun : ran[c] + skipped[c] > 0)
             => {overlay.upper, overlay.work} \subseteq dirs

\* under --no-prereqs and a persistent overlay, configure ran as the first
\* command of the run, and the directories exist
C24_Witness ==
    /\ script = V2
    /\ cli.overlay_dir = "obase"
    /\ cli.no_prereqs
    /\ ran["configure"] = 1
    /\ \A c \in Commands \ {"configure"} : ran[c] = 0
    /\ {<<"obase", "content">>, <<"obase", "work">>} \subseteq dirs

\* C29: build-samba2.py: the process exits 0 when main has requested its steps
\* and each completed, or when only the step listing was asked for, which
\* enters no handler and issues no command; it exits 1 when a command fails,
\* and after a failure no handler is entered and no command is issued.
C29_ExitStatus ==
    /\ [](script = V2 =>
            /\ status = "done" =>
                 /\ exit_status = 0
                 /\ top_requested \subseteq _did_steps
                 /\ requests = 0 =>
                      /\ Entered = {}
                      /\ \A c \in Commands : ran[c] = 0 /\ skipped[c] = 0
            /\ (FailedAt("run") \/ FailedAt("rpm_info")) => exit_status = 1)
    /\ [][(script = V2 /\ status = "failed") =>
            /\ invoked' = invoked
            /\ ran' = ran
            /\ skipped' = skipped
            /\ top_requested' = top_requested
            /\ exit_status' = 1]_vars

\* the first of the requested steps failed in its command; main would have
\* had another step to request
C29_Witness ==
    /\ script = V2
    /\ ~cli.dry_run
    /\ FailedAt("run")
    /\ error = "CommandFailed"
    /\ requests = 1
    /\ requests < MaxRequests
    /\ exit_status = 1

\* C30: in both scripts, when a handler raises, every handler in progress is
\* left as it is: none is entered again, none of their steps is recorded in
\* _did_steps, the error stays the one raised, and the steps recorded earlier
\* stay recorded.
C30_ErrorPropagates ==
    /\ [](status = "failed" =>
            \A i \in 1..Len(stack) :
                /\ stack[i].step \notin _did_steps
                /\ invoked[stack[i].step] = 1)
    /\ [][status = "failed" => UNCHANGED <<_did_steps, invoked, stack, error>>]_vars
    /\ [][_did_steps \subseteq _did_steps']_vars

\* a prerequisite completed, then the handler of a step requested by another
\* raised
C30_Witness ==
    /\ status = "failed"
    /\ Len(stack) = 2
    /\ stack[1].step = BUILD
    /\ stack[2].step = CONFIGURE
    /\ CONTAINER \in _did_steps
    /\ FailedAt("run")

\* C21 (as stated): a call of _container_cmd raises a configuration error
\* exactly when some port request is neither a string nor an integer;
\* otherwise it returns the command, with --publish=<string> for a string and
\* --publish=n:n for an integer n.
C21_PortsAccepted ==
    (call.fn = "_container_cmd" /\ call.raised # "RuntimeError") =>
        /\ (call.raised = "ValueError") <=>
               (\E i \in 1..Len(call.ports) : call.ports[i].type \notin {"str", "int"})
        /\ (call.raised = "") =>
               (\A i \in 1..Len(call.ports) :
                  \E j \in 1..Len(call.value) :
                     /\ call.value[j].opt = "--publish"
                     /\ call.value[j].v =
                            IF call.ports[i].type = "str" THEN <<call.ports[i].v>>
                            ELSE <<call.ports[i].v, ":", call.ports[i].v>>)

\* C22 (as stated): a call of _container_cmd starts no process and changes
\* no state of the context, whatever the options.
C22_ContainerCmdPure ==
    [][call'.fn = "_container_cmd" /\ call'.n # call.n =>
          ran' = ran /\ _engine' = _engine]_vars

\* C23: every command _container_cmd returns has exactly one --volume
\* argument, source directory at home directory, ending ':Z' with no
\* overlay, ':O' with the temporary overlay '-', and
\* ':O,upperdir=<base>/content,workdir=<base>/work' with an overlay at <base>.
C23_OneVolumeArgument ==
    (call.fn = "_container_cmd" /\ call.raised = "") =>
        /\ Cardinality({j \in 1..Len(call.value) : call.value[j].opt = "--volume"}) = 1
        /\ \A j \in 1..Len(call.value) :
              call.value[j].opt = "--volume" =>
                 call.value[j].v =
                    <<"source_dir", ":", "homedir">>
                    \o (IF cli.overlay_dir = "" THEN <<":Z">>
                        ELSE IF cli.overlay_dir = "-" THEN <<":O">>
                        ELSE <<":O", ",upperdir=", cli.overlay_dir, "content",
                               ",workdir=", cli.overlay_dir, "work">>)

C23_Witness ==
    /\ call.fn = "_container_cmd"
    /\ call.raised = ""
    /\ cli.overlay_dir = "obase"
    /\ Len(call.ports) = 1

\* C25: target_tag returns an explicit tag that does not start with '+' as
\* it is; otherwise <branch>.<distro>, followed by .<suffix> for a tag
\* +<suffix>, the branch being the current branch configured, or else the
\* branch git names with each '/' replaced by '-', or UNKNOWN when the git
\* query fails.
C25_TargetTag ==
    call.fn = "target_tag" =>
        IF cli.tag # <<>> /\ cli.tag[1] # "+" THEN call.value = cli.tag
        ELSE \E branch \in UNION {[1..n -> {"feature", "main", "wip", "x", "y", "/",
                                             "-", "UNKNOWN"}] : n \in 0..3} :
                /\ call.value = branch \o <<".">> \o cli.distro
                                 \o (IF cli.tag = <<>> THEN <<>>
                                     ELSE <<".">> \o SubSeq(cli.tag, 2, Len(cli.tag)))
                /\ IF cli.current_branch # <<>> THEN branch = cli.current_branch
                   ELSE IF call.git.returncode # 0 THEN branch = <<"UNKNOWN">>
                   ELSE /\ Len(branch) = Len(call.git.stdout)
                        /\ \A i \in 1..Len(branch) :
                              /\ call.git.stdout[i] = "/" => branch[i] = "-"
                              /\ call.git.stdout[i] # "/" => branch[i] = call.git.stdout[i]

C25_Witness ==
    /\ call.fn = "target_tag"
    /\ cli.tag = <<"+", "x">>
    /\ cli.current_branch = <<>>
    /\ call.git.returncode = 0
    /\ "/" \in {call.git.stdout[i] : i \in 1..Len(call.git.stdout)}

\* C26: container_engine gives the engine configured if there is one;
\* otherwise podman if it is on the path, docker if only docker is, and an
\* error if neither; an engine found by a search is kept and no search is
\* made again.
C26_EngineResolution ==
    [][LET read == call'.fn = "container_engine" /\ call'.n # call.n
       IN  /\ (read /\ cli.container_engine # "") =>
                 (call'.value = cli.container_engine)
           /\ (read /\ cli.container_engine = "" /\ call'.searched) =>
                 (/\ ("podman" \in which) => (call'.value = "podman")
                  /\ ("podman" \notin which /\ "docker" \in which) =>
                        (call'.value = "docker")
                  /\ (which = {}) => (call'.value = "RuntimeError")
                  /\ (which # {}) => (_engine' = call'.value))
           /\ (read /\ cli.container_engine = "" /\ ~call'.searched) =>
                 (call'.value = _engine /\ _engine # None)
           /\ (read /\ _engine # None) => ~call'.searched
           /\ (_engine # None) => (_engine' = _engine)]_vars

C26_Witness ==
    /\ call.fn = "container_engine"
    /\ call.n = 2
    /\ ~call.searched
    /\ call.value = "docker"
    /\ "podman" \in which

\* C27: in build-samba.py a copy task whose destination is a volume's
\* destination or beneath one, among the volumes of the backend and of the
\* task, raises an error and no copy command is run; a copy to anywhere else
\* is run.
C27_NoCopyIntoVolume ==
    [][(call'.fn = "_do_copy_task" /\ call'.n # call.n) =>
          IF \E vol \in call'._volumes \cup call'.volumes :
                \E k \in 0..Len(call'.dest) : SubSeq(call'.dest, 1, k) = vol
          THEN call'.raised = "ValueError" /\ ran' = ran
          ELSE ran'["copy"] = ran["copy"] + 1 /\ call'.raised # "ValueError"]_vars

C27_Witness ==
    /\ call.fn = "_do_copy_task"
    /\ call.raised = "ValueError"
    /\ call._volumes = {}
    /\ call.volumes = {<<"srv">>}
    /\ call.dest = <<"srv", "dest">>
    /\ ran["copy"] = 0

\* C28: whatever the length of the file and the block size, the bytes fed to
\* the hash are, in order, the bytes of the file read so far, all of them
\* once the loop has ended; the loop ends and the digest is returned; the
\* digest is that of the content of the file.
C28_DigestOfContent ==
    /\ [](hh = SubSeq(fh.content, 1, fh.pos))
    /\ [](call.eof => hh = fh.content)
    /\ [](call.returned => call.value.hex = hexdigest_of(fh.content))
    /\ <>call.returned

C28_Witness ==
    /\ call.returned
    /\ call.bsize = 2
    /\ Len(fh.content) = 4
    /\ call.n = 3

\* the rendering of a command: its arguments in order, each between single
\* quotes if it is not safe as it is, with a space between two arguments
Rendered(argv) ==
    LET part(i) == (IF i > 1 THEN <<" ">> ELSE <<>>)
                   \o (IF argv[i].safe THEN <<argv[i].s>> ELSE <<"'", argv[i].s, "'">>)
    IN  part(1) \o part(2)

\* C31: every command given to _run is logged in rendered form before it is
\* executed, and in dry-run before DidNotExecute is raised: when a command
\* is started or skipped, the last record of the log is the record of this
\* call and renders this command, and no more commands were started or
\* skipped than records were written.
C31_LoggedBeforeRun ==
    [][/\ (ran' # ran \/ skipped' # skipped) =>
             (/\ Len(log) = call.n
              /\ log' = log
              /\ log[Len(log)].cmd = Rendered(call.cmd.argv)
              /\ (skipped' # skipped) =>
                    (log[Len(log)].msg = "(dry-run) Not Executing command"))
        /\ ran'["git-rev-parse"] + ran'["custom"] + skipped'["git-rev-parse"]
              + skipped'["custom"] <= Len(log')]_vars

C31_Witness ==
    /\ call.fn = "_run"
    /\ call.n = 2
    /\ call.pc = "raised"
    /\ call.cmd.name = "custom"
    /\ skipped["custom"] = 2

\* C32 (as stated): in a run of build-samba2.py the git archive of TARBALL,
\* the rpmbuild -bs of SOURCE_RPM and the find of RPM all name one and the
\* same directory, whatever steps are requested and with or without
\* no_prereqs.
C32_OneBuildDir ==
    script = V2 =>
        Cardinality(build_dirs.tarball \cup build_dirs.srpm \cup build_dirs.find) <= 1

\* C33: in a run of build-samba2.py the queries of _update_rpm_info (rpm -q
\* and sha256sum) are started at most once each; once ctx.cache.rpm_version
\* is set no step starts them again and the cache keeps its values.
C33_RpmInfoOnce ==
    [][script = V2 =>
          /\ ran'["rpm-q"] <= 1
          /\ ran'["sha256sum"] <= 1
          /\ (cache.rpm_version # "None") =>
                (/\ cache' = cache
                 /\ ran'["rpm-q"] = ran["rpm-q"]
                 /\ ran'["sha256sum"] = ran["sha256sum"])]_vars

C33_Witness ==
    /\ script = V2
    /\ {TARBALL, RPM} \subseteq _did_steps
    /\ invoked[TARBALL] = 1
    /\ invoked[RPM] = 1
    /\ ran["rpm-q"] = 1
    /\ cache.spec_sha256_sum # ""

\* the commands of the log that are tasks a block appends, in order
TasksIn(records) ==
    LET run == SelectSeq(records, LAMBDA e : e.cmd[1] \in AppendedTasks)
    IN  [k \in 1..Len(run) |-> run[k].cmd[1]]

\* the number of commands of the log that are the command named
Count(records, name) == Len(SelectSeq(records, LAMBDA e : e.cmd[1] = name))

\* C34: in build-samba.py the tasks appended in a with-block are run only
\* by _apply after the block ended without an exception, in the order of
\* their appending and each once when all succeed; buildah commit is run only
\* after every task has run and succeeded; and whenever control is in the
\* block or has left it, a removal has been started for every working
\* container made.
C34_TasksAppliedOnExit ==
    /\ [](TasksIn(log) = SubSeq(backend.tasks, 1, Len(TasksIn(log))))
    /\ [](TasksIn(log) # <<>> => call.fn \in {"_apply", ""})
    /\ []((call.pc = "exited" /\ call.exc = "") => TasksIn(log) = backend.tasks)
    /\ [](call.pc \in {"body", "exited"} => Count(log, "rm") = call.made)
    /\ [][Count(log', "commit") # Count(log, "commit") =>
             (/\ TasksIn(log) = backend.tasks
              /\ call.exc = ""
              /\ Count(log, "commit") = 0)]_vars
    /\ [][(TasksIn(log') # TasksIn(log)) =>
             (call.fn = "_apply" /\ call.exc = "" /\ backend' = backend)]_vars

C34_Witness ==
    /\ call.pc = "exited"
    /\ call.exc = "CalledProcessError"
    /\ backend.tasks = <<"copy-sources", "mkdir">>
    /\ TasksIn(log) = <<"copy-sources">>
    /\ call.made = 2
    /\ Count(log, "rm") = 2

\* C35 (as stated): in build-samba.py, when BUILD_CONTAINER is recorded as
\* done the working image exists and carries the annotations the step set:
\* a failure of buildah config or of buildah commit fails the step.
C35_DoneMeansCommitted ==
    [][(script = V1 /\ BUILD_CONTAINER \notin _did_steps
          /\ BUILD_CONTAINER \in _did_steps') =>
          (/\ image'.present
           /\ HasKey(image'.annotations, ANN_BC)
           /\ HasKey(image'.annotations, ANN_SPEC_DIGEST))]_vars

\* C36 (as stated): in both scripts no request, that of the default step
\* when no --execute option is given included, fails because the step
\* identifier is missing from the enumeration or has no handler.
C36_EveryStepRegistered ==
    error \notin {"AttributeError", "KeyError"}

\* the steps the handler of a step requests
Requested(step) ==
    {_steps[step][i].a : i \in {k \in 1..Len(_steps[step]) : _steps[step][k].k = "wants"}}

\* the steps reached from a step by at most n requests one after another
RECURSIVE Reached(_, _)
Reached(from, n) ==
    IF n = 0 THEN from
    ELSE Reached(from \cup UNION {Requested(step) : step \in from}, n - 1)

\* C37: among the steps registered in build-samba2.py no step reaches itself
\* by requests of handlers; every top-level request, once its handler is
\* entered, comes to its end, by returning to main or by an exception; and no
\* handler is entered twice.
C37_WantsTerminates ==
    /\ [](\A step \in DOMAIN _steps :
            step \notin Reached(Requested(step), Cardinality(DOMAIN _steps)))
    /\ [](\A step \in DOMAIN _steps : invoked[step] <= 1)
    /\ <>(stack = <<>> \/ status = "failed")

C37_Witness ==
    /\ stack = <<>>
    /\ status = "running"
    /\ top_requested = {PACKAGES}
    /\ \A step \in {PACKAGES, RPM, SOURCE_RPM, TARBALL, CONTAINER} : invoked[step] = 1

====
